---- MODULE Spec2Model ----
(***************************************************************************)
(* Smart Link Decorator: the alias replacement plugin                      *)
(* (CMLinkAliasReplacementPlugin) and the settings facet                   *)
(* (SLD_SettingsFacet), as a state machine over one editor view; the       *)
(* decorations (decorate, parseWikiLink, matchesInternalLink,              *)
(* findWikiLinks, buildLinkDecorations, CMLinkDecoratorPlugin) and the     *)
(* suggester (SmartLinkSuggester), each under a specification of its own,  *)
(* as are debounce and the plugin with its open editors.                   *)
(*                                                                         *)
(* A document is a sequence of UTF-16 code units, each a one-character     *)
(* string.  Offsets are 0-based as in the source; SubSeq is 1-based.       *)
(***************************************************************************)
EXTENDS Integers, Sequences, FiniteSets, TLC

VARIABLES
  doc,       \* view.state.doc
  sel,       \* view.state.selection.main: [anchor, head]
  values,    \* the arrays contributed to SLD_SettingsFacet, in contribution order
  timers,    \* callbacks passed to setTimeout that have not run yet (FIFO)
  pc,        \* "idle", or "update" while the view notifies its plugins
  upd,       \* the ViewUpdate being handled, or the one handled last
  calls,     \* the processAlias invocations of the update handled last; the history of the window
  fired,     \* the timeout callback run last and how view.dispatch ended
  reentrant, \* TRUE once view.dispatch was called inside an update notification
  steps,     \* number of transactions dispatched by the user or the host
  tree,      \* syntaxTree(view.state): the nodes in pre-order
  facet,     \* view.state.facet(SLD_SettingsFacet): the array and its identity
  decorations, \* CMLinkDecoratorPlugin: this.decorations
  arg,       \* the arguments of the call made last
  ret        \* what the call made last returned and did

vars == <<doc, sel, values, timers, pc, upd, calls, fired, reentrant, steps,
          tree, facet, decorations, arg, ret>>

\* the state of the alias replacement plugin and its view
editorVars == <<doc, sel, values, timers, pc, upd, calls, fired, reentrant, steps>>
\* the state of the decorator plugin and the calls of the pure functions
decoVars == <<tree, facet, decorations, arg, ret>>

-----------------------------------------------------------------------------
(* Bounds of the model *)

MaxSteps == 2
MaxDocLen == 14
MaxTimers == 3
MaxContribs == 2
MaxArrayLen == 2

-----------------------------------------------------------------------------
(* JavaScript string primitives used by the source *)

Min(a, b) == IF a < b THEN a ELSE b
Max(a, b) == IF a > b THEN a ELSE b

Null == [null |-> TRUE]

\* s.slice(start, end): negative indexes count from the end, both are clamped
slice(s, start, end) ==
  LET n == Len(s)
      a == IF start < 0 THEN Max(n + start, 0) ELSE Min(start, n)
      b == IF end < 0 THEN Max(n + end, 0) ELSE Min(end, n)
  IN  IF a >= b THEN <<>> ELSE SubSeq(s, a + 1, b)

\* doc.sliceString(from, to)
sliceString(s, from, to) == slice(s, from, to)

startsWith(s, p) == Len(p) <= Len(s) /\ SubSeq(s, 1, Len(p)) = p

endsWith(s, p) == Len(p) <= Len(s) /\ SubSeq(s, Len(s) - Len(p) + 1, Len(s)) = p

\* p occurs in s at 0-based index i
OccursAt(s, p, i) == i >= 0 /\ i + Len(p) <= Len(s) /\ SubSeq(s, i + 1, i + Len(p)) = p

\* s.indexOf(p, position): the first occurrence at an index >= position, or -1
indexOf(s, p, position) ==
  LET from == Min(Max(position, 0), Len(s))
      hits == {i \in from..Len(s) : OccursAt(s, p, i)}
  IN  IF hits = {} THEN -1 ELSE CHOOSE i \in hits : \A j \in hits : i <= j

\* s.lastIndexOf(p, position): the last occurrence at an index <= position, or -1
lastIndexOf(s, p, position) ==
  LET upto == Min(Max(position, 0), Len(s))
      hits == {i \in 0..upto : OccursAt(s, p, i)}
  IN  IF hits = {} THEN -1 ELSE CHOOSE i \in hits : \A j \in hits : i >= j

OPEN == <<"[", "[">>
CLOSE == <<"]", "]">>
PIPE == <<"|">>

-----------------------------------------------------------------------------
(* SLD_SettingsFacet: the Rule Set *)

\* variant: an overwritten key is deleted and inserted anew, at the end
MapSet_reinsert(byPrefix, mapping) ==
  Append(SelectSeq(byPrefix, LAMBDA m : m.prefix # mapping.prefix), mapping)

\* byPrefix.set(mapping.prefix, mapping) on a Map kept as the sequence of its
\* values in iteration order: an existing key keeps its place
MapSet(byPrefix, mapping) ==
  IF \E i \in 1..Len(byPrefix) : byPrefix[i].prefix = mapping.prefix
  THEN [i \in 1..Len(byPrefix) |->
          IF byPrefix[i].prefix = mapping.prefix THEN mapping ELSE byPrefix[i]]
  ELSE Append(byPrefix, mapping)

\* the inner loop: for (const mapping of mappings) byPrefix.set(..)
RECURSIVE SetAll(_, _)
SetAll(byPrefix, mappings) ==
  IF mappings = <<>> THEN byPrefix
  ELSE SetAll(MapSet(byPrefix, Head(mappings)), Tail(mappings))

\* the outer loop: for (const mappings of values)
RECURSIVE CombineFrom(_, _)
CombineFrom(byPrefix, vals) ==
  IF vals = <<>> THEN byPrefix
  ELSE CombineFrom(SetAll(byPrefix, Head(vals)), Tail(vals))

\* combine: values => Array.from(byPrefix.values())
combine(vals) == CombineFrom(<<>>, vals)

\* variant: the last matching rule instead of the first
FindMapping_last(mappings, alias) ==
  LET hits == {i \in 1..Len(mappings) : startsWith(alias, mappings[i].prefix)}
  IN  IF hits = {} THEN Null
      ELSE mappings[CHOOSE i \in hits : \A j \in hits : i >= j]

\* mappings.find(m => alias.startsWith(m.prefix)), Null for undefined
FindMapping(mappings, alias) ==
  LET hits == {i \in 1..Len(mappings) : startsWith(alias, mappings[i].prefix)}
  IN  IF hits = {} THEN Null
      ELSE mappings[CHOOSE i \in hits : \A j \in hits : i <= j]

-----------------------------------------------------------------------------
(* CMLinkAliasReplacementPlugin.  u is the ViewUpdate:                     *)
(*   u.state = [doc, selection, facet], u.startState = [selection],        *)
(*   u.docChanged, u.selectionSet, u.transactions (each [userEvent, ..])   *)

Empty(range) == range.anchor = range.head
From(range) == Min(range.anchor, range.head)
To(range) == Max(range.anchor, range.head)

\* tr.isUserEvent(event): the annotation equals event or is a sub-event of it;
\* a user event is the sequence of its dot-separated parts, <<>> when absent
isUserEvent(tr, event) ==
  /\ tr.userEvent # <<>>
  /\ startsWith(tr.userEvent, event)

Link(from, to, text) == [from |-> from, to |-> to, text |-> text]

\* variant: the first [[ of the document instead of the nearest
extractCompletedWikilink_first(d, cursorPos) ==
  LET open == indexOf(d, OPEN, 0)
      text == slice(d, open, cursorPos)
  IN  IF open = -1 \/ open > cursorPos - 1 THEN Null
      ELSE IF ~endsWith(text, CLOSE) THEN Null
      ELSE IF indexOf(text, OPEN, 2) # -1 THEN Null
      ELSE Link(open, cursorPos, text)

extractCompletedWikilink(d, cursorPos) ==
  LET open == lastIndexOf(d, OPEN, cursorPos - 1)
      text == slice(d, open, cursorPos)
  IN  IF open = -1 THEN Null
      ELSE IF ~endsWith(text, CLOSE) THEN Null
      ELSE IF indexOf(text, OPEN, 2) # -1 THEN Null
      ELSE Link(open, cursorPos, text)

findEnclosingWikilink(d, pos) ==
  LET open == lastIndexOf(d, OPEN, pos)
      close == indexOf(d, CLOSE, open)
      to == close + 2
  IN  IF open = -1 THEN Null
      ELSE IF close = -1 THEN Null
      ELSE IF pos < open \/ pos > to THEN Null
      ELSE Link(open, to, slice(d, open, to))

\* variant: the range starts at the separator, one code unit early
extractAlias_atPipe(u, linkText, linkFrom) ==
  LET pipeIndex == indexOf(linkText, PIPE, 0)
      aliasStart == pipeIndex + 1
      alias == slice(linkText, aliasStart, -2)
      mapping == FindMapping(u.state.facet, alias)
  IN  IF pipeIndex = -1 THEN Null
      ELSE IF alias = <<>> THEN Null
      ELSE IF mapping = Null THEN Null
      ELSE [alias |-> alias, from |-> linkFrom + pipeIndex,
            prefixLength |-> Len(mapping.prefix)]

extractAlias(u, linkText, linkFrom) ==
  LET pipeIndex == indexOf(linkText, PIPE, 0)
      aliasStart == pipeIndex + 1
      alias == slice(linkText, aliasStart, -2)
      mapping == FindMapping(u.state.facet, alias)
  IN  IF pipeIndex = -1 THEN Null
      ELSE IF alias = <<>> THEN Null
      ELSE IF mapping = Null THEN Null
      ELSE [alias |-> alias, from |-> linkFrom + aliasStart,
            prefixLength |-> Len(mapping.prefix)]

\* mapping?.emoji ?? null; a string result is wrapped as [str |-> ..]
resolveEmoji(u, alias) ==
  LET mapping == FindMapping(u.state.facet, alias)
  IN  IF mapping = Null THEN Null ELSE [str |-> mapping.emoji]

\* variant: the selection of the start state instead of the new state
DispatchSpec_startSelection(kind, aliasInfo, replacement, u) ==
  [kind |-> kind,
   from |-> aliasInfo.from,
   to |-> aliasInfo.from + aliasInfo.prefixLength,
   insert |-> replacement,
   selection |-> u.startState.selection,
   userEvent |-> <<"input">>]

\* The effects of processAlias: the view.dispatch calls it makes before it
\* returns (kind "dispatch") and the callbacks it hands to setTimeout (kind
\* "setTimeout"), each with the transaction spec the dispatch is given.
DispatchSpec(kind, aliasInfo, replacement, u) ==
  [kind |-> kind,
   from |-> aliasInfo.from,
   to |-> aliasInfo.from + aliasInfo.prefixLength,
   insert |-> replacement,
   selection |-> u.state.selection,
   userEvent |-> <<"input">>]

\* variant: view.dispatch is called at once, inside the update
processAlias_sync(u, link) ==
  LET aliasInfo == extractAlias(u, link.text, link.from)
      replacement == resolveEmoji(u, aliasInfo.alias)
  IN  IF aliasInfo = Null THEN <<>>
      ELSE IF replacement = Null \/ replacement.str = <<>> THEN <<>>
      ELSE IF aliasInfo.alias = replacement.str THEN <<>>
      ELSE << DispatchSpec("dispatch", aliasInfo, replacement.str, u) >>

\* variant: only a missing emoji ends the processing, an empty one does not
processAlias_nullOnly(u, link) ==
  LET aliasInfo == extractAlias(u, link.text, link.from)
      replacement == resolveEmoji(u, aliasInfo.alias)
  IN  IF aliasInfo = Null THEN <<>>
      ELSE IF replacement = Null THEN <<>>
      ELSE IF aliasInfo.alias = replacement.str THEN <<>>
      ELSE << DispatchSpec("setTimeout", aliasInfo, replacement.str, u) >>

\* variant: no check that the alias already is the replacement
processAlias_unguarded(u, link) ==
  LET aliasInfo == extractAlias(u, link.text, link.from)
      replacement == resolveEmoji(u, aliasInfo.alias)
  IN  IF aliasInfo = Null THEN <<>>
      ELSE IF replacement = Null \/ replacement.str = <<>> THEN <<>>
      ELSE << DispatchSpec("setTimeout", aliasInfo, replacement.str, u) >>

processAlias(u, link) ==
  LET aliasInfo == extractAlias(u, link.text, link.from)
      replacement == resolveEmoji(u, aliasInfo.alias)
  IN  IF aliasInfo = Null THEN <<>>
      ELSE IF replacement = Null \/ replacement.str = <<>> THEN <<>>
      ELSE IF aliasInfo.alias = replacement.str THEN <<>>
      ELSE << DispatchSpec("setTimeout", aliasInfo, replacement.str, u) >>

\* A processAlias invocation with what it did
Call(by, u, link) == [by |-> by, link |-> link, effects |-> processAlias(u, link)]

handleLinkCompletion(u) ==
  LET s == u.state.selection
      cursorPos == From(s)
      tail == sliceString(u.state.doc, Max(0, cursorPos - 2), cursorPos)
      link == extractCompletedWikilink(u.state.doc, cursorPos)
  IN  IF ~Empty(s) THEN <<>>
      ELSE IF tail # CLOSE THEN <<>>
      ELSE IF link = Null THEN <<>>
      ELSE << Call("completion", u, link) >>

\* variant: no check that the caret is still inside the link
handleCaretExit_always(u) ==
  LET prevSel == u.startState.selection
      nextSel == u.state.selection
      prevPos == From(prevSel)
      nextPos == From(nextSel)
      link == findEnclosingWikilink(u.state.doc, prevPos)
  IN  IF ~Empty(prevSel) \/ ~Empty(nextSel) THEN <<>>
      ELSE IF prevPos = nextPos THEN <<>>
      ELSE IF link = Null THEN <<>>
      ELSE << Call("caretExit", u, link) >>

handleCaretExit(u) ==
  LET prevSel == u.startState.selection
      nextSel == u.state.selection
      prevPos == From(prevSel)
      nextPos == From(nextSel)
      link == findEnclosingWikilink(u.state.doc, prevPos)
  IN  IF ~Empty(prevSel) \/ ~Empty(nextSel) THEN <<>>
      ELSE IF prevPos = nextPos THEN <<>>
      ELSE IF link = Null THEN <<>>
      ELSE IF nextPos >= link.from /\ nextPos <= link.to THEN <<>>
      ELSE << Call("caretExit", u, link) >>

\* the for loop over update.transactions
RECURSIVE ForTransactions(_, _)
ForTransactions(u, trs) ==
  IF trs = <<>> THEN <<>>
  ELSE (IF ~isUserEvent(Head(trs), <<"input">>) THEN <<>> ELSE handleLinkCompletion(u))
       \o ForTransactions(u, Tail(trs))

\* update(update): the processAlias invocations it makes, in order
update(u) ==
  (IF u.docChanged THEN ForTransactions(u, u.transactions) ELSE <<>>)
  \o (IF u.selectionSet THEN handleCaretExit(u) ELSE <<>>)

RECURSIVE Effects(_)
Effects(cs) == IF cs = <<>> THEN <<>> ELSE Head(cs).effects \o Effects(Tail(cs))

OfKind(effects, kind) == SelectSeq(effects, LAMBDA e : e.kind = kind)

\* variant: scheduling cancels the callbacks still pending
setTimeout_replacing(queue, callbacks) == IF callbacks = <<>> THEN queue ELSE callbacks

\* setTimeout(callback, 0) for each callback: queued behind the pending ones
setTimeout(queue, callbacks) == queue \o callbacks

-----------------------------------------------------------------------------
(* The rules and documents the model runs on *)

Rule(prefix, emoji, linkType) == [prefix |-> prefix, emoji |-> emoji, linkType |-> linkType]

\* {prefix: "@", emoji: "👤"}: the emoji is a surrogate pair, two code units
RPerson == Rule(<<"@">>, <<"H", "L">>, "person")
\* a rule without an emoji
RMute == Rule(<<"@">>, <<>>, "mute")
\* the empty prefix matches every alias
RAny == Rule(<<>>, <<"a">>, "any")
\* two rules that replace each other's prefix
RSwapA == Rule(<<"@">>, <<"a">>, "swap")
RSwapB == Rule(<<"a">>, <<"@">>, "back")

\* what the extensions of one editor contribute to the facet
ValuesPerson == << <<RPerson>> >>
ValuesMute == << <<RMute, RAny>> >>
ValuesSwap == << <<RPerson, RSwapB>>, <<RSwapA>> >>
ValuesNone == << >>

InitValues == {ValuesPerson, ValuesMute, ValuesSwap}
AllValues == InitValues \cup {ValuesNone}

\* the documents and caret offsets the editor starts with
InitStates ==
  { << <<"a", "[", "[", "a", "|", "@", "a", "]", "a">>, 8 >>,   \* a[[a|@a]a  one ] to type
    << <<"[", "[", "a", "|", "@", "a", "]", "]">>, 5 >>,        \* [[a|@a]]   caret in the alias
    << <<"[", "[", "a", "|", "@", "a", "]", "]">>, 8 >>,        \* [[a|@a]]   caret after the link
    << <<"[", "[", "|", "a", "]">>, 5 >>,                       \* [[|a]      alias a
    << <<"[", "[", "a", "@", "]">>, 5 >>,                       \* [[a@]      no separator
    << <<"[", "[", "a", "|", "]">>, 5 >>,                       \* [[a|]      empty alias
    << <<"a", "|", "@", "a", "]">>, 5 >>,                       \* a|@a]      no opener
    << <<"[", "[", "[", "[", "|", "@", "]">>, 7 >>,             \* [[[[|@]    nested opener
    << <<"[", "[", "|", "@", "]", "]", "[", "[", "|", "@", "]">>, 4 >>, \* [[|@]][[|@]
    << <<"[", "[", "|", "@", "a">>, 5 >>,                       \* [[|@a      both ] to type
    << <<>>, 0 >> }

TypedChars == {"]", "a"}

Caret(p) == [anchor |-> p, head |-> p]

-----------------------------------------------------------------------------
(* The editor: transactions and the update cycle (the view of @codemirror) *)

\* a transaction as the plugin sees it
Tr(userEvent, docChanged, selection) ==
  [userEvent |-> userEvent, docChanged |-> docChanged, selection |-> selection]

\* changes: {from, to, insert} applied to a document
ApplyChange(d, from, to, insert) ==
  SubSeq(d, 1, from) \o insert \o SubSeq(d, to + 1, Len(d))

\* a position mapped through the insertion of n code units at offset at
MapPos(pos, at, n, assoc) ==
  IF pos < at \/ (pos = at /\ assoc < 0) THEN pos ELSE pos + n

\* a selection range mapped through an insertion (SelectionRange.map)
MapRange(r, at, n) ==
  IF Empty(r) THEN Caret(MapPos(r.head, at, n, -1))
  ELSE IF r.anchor < r.head
       THEN [anchor |-> MapPos(r.anchor, at, n, 1), head |-> MapPos(r.head, at, n, -1)]
       ELSE [anchor |-> MapPos(r.anchor, at, n, -1), head |-> MapPos(r.head, at, n, 1)]

After(d, s, tr) == [doc |-> d, sel |-> s, tr |-> tr]

\* the user types c: the selection is replaced, the caret follows the text
TypeTr(d, s, c) ==
  After(ApplyChange(d, From(s), To(s), <<c>>), Caret(From(s) + 1),
        Tr(<<"input", "type">>, TRUE, TRUE))

\* backspace: the selection, or the code unit before the caret, is deleted
DeleteTr(d, s) ==
  LET from == IF Empty(s) THEN s.head - 1 ELSE From(s)
  IN  After(ApplyChange(d, from, To(s), <<>>), Caret(from),
            Tr(<<"delete", "backward">>, TRUE, TRUE))

\* the caret is put at p (pointer or arrow key)
SelectTr(d, r) == After(d, r, Tr(<<"select">>, FALSE, TRUE))

\* another extension inserts c at the start of the document; the selection
\* is mapped, not set
PrependTr(d, s, c) ==
  After(ApplyChange(d, 0, 0, <<c>>), MapRange(s, 0, 1), Tr(<<>>, TRUE, FALSE))

\* another extension inserts c at the caret and puts the caret behind it
InsertTr(d, s, c) ==
  After(ApplyChange(d, From(s), From(s), <<c>>), Caret(From(s) + 1), Tr(<<>>, TRUE, TRUE))

\* an input transaction whose changes a change filter removed
FilteredTr(d, s) == After(d, s, Tr(<<"input", "type">>, FALSE, FALSE))

\* the transactions a batch of two is made of
BatchFirst(d, s) == {TypeTr(d, s, "]"), InsertTr(d, s, "]")}
BatchSecond(d, s) == {TypeTr(d, s, "]"), FilteredTr(d, s)}

\* view.update(trs): the state is replaced and the plugins are notified
Dispatch(trs, d, s, v) ==
  /\ pc = "idle"
  /\ steps < MaxSteps
  /\ steps' = steps + 1
  /\ doc' = d
  /\ sel' = s
  /\ values' = v
  /\ upd' = [startState |-> [doc |-> doc, selection |-> sel], transactions |-> trs]
  /\ pc' = "update"
  /\ calls' = <<>>
  /\ UNCHANGED <<timers, fired, reentrant>>
  /\ UNCHANGED decoVars

DispatchOne(a) == Dispatch(<<a.tr>>, a.doc, a.sel, values)

Type(c) == DispatchOne(TypeTr(doc, sel, c))

Delete ==
  /\ To(sel) > 0
  /\ DispatchOne(DeleteTr(doc, sel))

MoveCaret(p) == DispatchOne(SelectTr(doc, Caret(p)))

ExtendSelection(h) ==
  /\ h # sel.anchor
  /\ DispatchOne(SelectTr(doc, [anchor |-> sel.anchor, head |-> h]))

Prepend(c) == DispatchOne(PrependTr(doc, sel, c))

Insert(c) == DispatchOne(InsertTr(doc, sel, c))

Batch ==
  \E a \in BatchFirst(doc, sel) :
    \E b \in BatchSecond(a.doc, a.sel) :
      Dispatch(<<a.tr, b.tr>>, b.doc, b.sel, values)

\* updateAllEditors: the compartment is reconfigured with new mappings
Reconfigure(v) ==
  /\ v # values
  /\ Dispatch(<<Tr(<<>>, FALSE, FALSE)>>, doc, sel, v)

\* the ViewUpdate handed to the plugin
ViewUpdate ==
  [state |-> [doc |-> doc, selection |-> sel, facet |-> combine(values)],
   startState |-> upd.startState,
   docChanged |-> \E i \in 1..Len(upd.transactions) : upd.transactions[i].docChanged,
   selectionSet |-> \E i \in 1..Len(upd.transactions) : upd.transactions[i].selection,
   transactions |-> upd.transactions]

\* the plugin's update method runs to its end
PluginUpdate ==
  /\ pc = "update"
  /\ LET cs == update(ViewUpdate)
     IN  /\ Len(timers) + Len(Effects(cs)) <= MaxTimers
         /\ calls' = cs
         /\ timers' = setTimeout(timers, OfKind(Effects(cs), "setTimeout"))
         /\ reentrant' = (reentrant \/ OfKind(Effects(cs), "dispatch") # <<>>)
  /\ pc' = "idle"
  /\ UNCHANGED <<doc, sel, values, upd, fired, steps>>
  /\ UNCHANGED decoVars

\* view.dispatch(spec) accepts the change and the selection
Accepts(d, cb) ==
  /\ cb.from <= cb.to
  /\ cb.to <= Len(d)
  /\ To(cb.selection) <= Len(ApplyChange(d, cb.from, cb.to, cb.insert))

\* the event loop runs the oldest timeout callback: view.dispatch({changes,
\* selection, userEvent}); a change or selection outside the document throws
RunTimeout ==
  /\ pc = "idle"
  /\ timers # <<>>
  /\ Len(doc) + Len(Head(timers).insert) <= MaxDocLen
  /\ timers' = Tail(timers)
  /\ LET cb == Head(timers)
     IN  IF Accepts(doc, cb)
         THEN /\ doc' = ApplyChange(doc, cb.from, cb.to, cb.insert)
              /\ sel' = cb.selection
              /\ upd' = [startState |-> [doc |-> doc, selection |-> sel],
                         transactions |-> <<Tr(cb.userEvent, TRUE, TRUE)>>]
              /\ pc' = "update"
              /\ calls' = <<>>
              /\ fired' = [cb |-> cb, result |-> "applied"]
         ELSE /\ fired' = [cb |-> cb, result |-> "RangeError"]
              /\ UNCHANGED <<doc, sel, upd, pc, calls>>
  /\ UNCHANGED <<values, reentrant, steps>>
  /\ UNCHANGED decoVars

\* no decorator plugin is modelled and no call has been made
NoDecorator ==
  /\ tree = <<>>
  /\ facet = Null
  /\ decorations = Null
  /\ arg = Null
  /\ ret = Null

Init ==
  /\ \E st \in InitStates : doc = st[1] /\ sel = Caret(st[2])
  /\ values \in InitValues
  /\ timers = <<>>
  /\ pc = "idle"
  /\ upd = [startState |-> [doc |-> doc, selection |-> sel], transactions |-> <<>>]
  /\ calls = <<>>
  /\ fired = Null
  /\ reentrant = FALSE
  /\ steps = 0
  /\ NoDecorator

Next ==
  \/ \E c \in TypedChars : Type(c)
  \/ Delete
  \/ \E p \in 0..Len(doc) : MoveCaret(p)
  \/ \E h \in {sel.head - 1, sel.head + 1} \cap (0..Len(doc)) : ExtendSelection(h)
  \/ \E c \in {"a"} : Prepend(c)
  \/ \E c \in {"]"} : Insert(c)
  \/ Batch
  \/ \E v \in AllValues : Reconfigure(v)
  \/ PluginUpdate
  \/ RunTimeout

Spec == Init /\ [][Next]_vars

-----------------------------------------------------------------------------
(* What the claims speak of, stated on the document itself *)

\* the update handled last has returned; doc, sel and values are its state
Handled == pc = "idle" /\ upd.transactions # <<>>

\* the code units a and b stand at the 0-based offsets i and i + 1 of d
PairAt(d, i, a, b) == i >= 0 /\ i + 2 <= Len(d) /\ d[i + 1] = a /\ d[i + 2] = b

Greatest(S) == CHOOSE x \in S : \A y \in S : y <= x
Least(S) == CHOOSE x \in S : \A y \in S : x <= y

\* offsets up to m at which a [[ starts
Openers(d, m) == {i \in 0..m : PairAt(d, i, "[", "[")}

\* offsets from m on at which a ]] starts
Closers(d, m) == {i \in m..Len(d) : PairAt(d, i, "]", "]")}

\* the update carries a document change made by an input transaction
InputChange ==
  \E i \in 1..Len(upd.transactions) :
    /\ upd.transactions[i].docChanged
    /\ upd.transactions[i].userEvent # <<>>
    /\ upd.transactions[i].userEvent[1] = "input"

\* a single collapsed caret stands right behind a ]]
CaretBehindClose == sel.anchor = sel.head /\ PairAt(doc, sel.head - 2, "]", "]")

\* the rules in effect
Rules == combine(values)

\* 1-based places of | in a link text
Pipes(text) == {i \in 1..Len(text) : text[i] = "|"}

\* the alias of a link text with a separator: what follows the first | up to
\* the final ]]
AliasOf(text) == SubSeq(text, Least(Pipes(text)) + 1, Len(text) - 2)

\* the rules whose prefix is a leading substring of alias, by position
Matching(alias) ==
  {i \in 1..Len(Rules) :
     /\ Len(Rules[i].prefix) <= Len(alias)
     /\ \A k \in 1..Len(Rules[i].prefix) : Rules[i].prefix[k] = alias[k]}

\* the mutation alias processing owes to a link, as a sequence of none or one
Owed(link) ==
  IF Pipes(link.text) = {} THEN <<>>
  ELSE LET alias == AliasOf(link.text)
           rule == Rules[Least(Matching(alias))]
           at == link.from + Least(Pipes(link.text))
       IN  IF alias = <<>> THEN <<>>
           ELSE IF Matching(alias) = {} THEN <<>>
           ELSE IF rule.emoji = <<>> THEN <<>>
           ELSE IF rule.emoji = alias THEN <<>>
           ELSE << [from |-> at, to |-> at + Len(rule.prefix), insert |-> rule.emoji] >>

\* the range and text of a scheduled mutation
Edit(e) == [from |-> e.from, to |-> e.to, insert |-> e.insert]

\* the callbacks the update handled last has scheduled
Scheduled == Effects(calls)

-----------------------------------------------------------------------------
(* C1 *)

\* the link a completing input closes: from the nearest [[ before the caret
\* to the caret
C1_Link ==
  LET o == Greatest(Openers(doc, sel.head - 1))
  IN  Link(o, sel.head, SubSeq(doc, o + 1, sel.head))

\* an input change has left the caret behind the ]] of a link with an alias
\* whose first matching rule has an emoji other than the alias
C1_Case ==
  /\ Handled
  /\ InputChange
  /\ CaretBehindClose
  /\ Openers(doc, sel.head - 1) # {}
  /\ Pipes(C1_Link.text) # {}
  /\ AliasOf(C1_Link.text) # <<>>
  /\ Matching(AliasOf(C1_Link.text)) # {}
  /\ LET rule == Rules[Least(Matching(AliasOf(C1_Link.text)))]
     IN  rule.emoji # <<>> /\ rule.emoji # AliasOf(C1_Link.text)

\* the document with the alias's prefix replaced by the rule's emoji
C1_Result ==
  LET text == C1_Link.text
      rule == Rules[Least(Matching(AliasOf(text)))]
      at == C1_Link.from + Least(Pipes(text))
  IN  SubSeq(doc, 1, at) \o rule.emoji \o SubSeq(doc, at + Len(rule.prefix) + 1, Len(doc))

C1_IsScheduled ==
  C1_Case =>
    \E k \in 1..Len(calls) :
      /\ calls[k].by = "completion"
      /\ Len(calls[k].effects) = 1
      /\ Edit(calls[k].effects[1]) = Owed(C1_Link)[1]
      /\ \E i \in 1..Len(timers) : timers[i] = calls[k].effects[1]

\* the callback scheduled for the link runs before anything else edits
C1_RunsNext ==
  /\ C1_Case
  /\ timers # <<>>
  /\ timers = Scheduled
  /\ timers' = Tail(timers)

\* C1: when an input change leaves a collapsed caret right behind the ]] of
\* a link [[target|alias]] whose alias starts with a rule's prefix, and the
\* first such rule has a non-empty emoji other than the whole alias, a
\* mutation replacing exactly the alias's leading prefixLength code units is
\* scheduled, and once it runs with no edit in between the document is the
\* earlier one with that prefix replaced by the emoji, all else unchanged.
C1_PrefixReplaced ==
  /\ [] C1_IsScheduled
  /\ [][C1_RunsNext => (fired'.result = "applied" /\ doc' = C1_Result)]_vars

\* "Note [[Target|@Foo]] end" has become "Note [[Target|👤Foo]] end"
C1_Witness ==
  /\ fired # Null
  /\ fired.result = "applied"
  /\ upd.startState.doc = <<"a", "[", "[", "a", "|", "@", "a", "]", "]", "a">>
  /\ doc = <<"a", "[", "[", "a", "|", "H", "L", "a", "]", "]", "a">>
  /\ steps = 1

-----------------------------------------------------------------------------
(* C3 *)

\* C3: alias processing takes as alias the text after the first | of the
\* link up to the final ]]; it schedules nothing when there is no |, when
\* the alias is empty or when no rule's prefix leads the alias; it takes the
\* first such rule in Rule Set order, replaces with that rule's emoji, and
\* schedules nothing when that emoji is empty, whatever later rules match.
C3_AliasProcessing ==
  \A k \in 1..Len(calls) :
    LET text == calls[k].link.text
        found == Pipes(text) # {} /\ AliasOf(text) # <<>> /\ Matching(AliasOf(text)) # {}
        rule == Rules[Least(Matching(AliasOf(text)))]
    IN  /\ ~found => calls[k].effects = <<>>
        /\ (found /\ rule.emoji = <<>>) => calls[k].effects = <<>>
        /\ (found /\ rule.emoji # <<>> /\ rule.emoji # AliasOf(text)) =>
             /\ Len(calls[k].effects) = 1
             /\ calls[k].effects[1].insert = rule.emoji
             /\ calls[k].effects[1].from = calls[k].link.from + Least(Pipes(text))
             /\ calls[k].effects[1].to = calls[k].effects[1].from + Len(rule.prefix)

\* the first matching rule has no emoji, a later matching rule has one, and
\* nothing was scheduled
C3_Witness ==
  /\ Handled
  /\ \E k \in 1..Len(calls) :
       LET text == calls[k].link.text
       IN  /\ Pipes(text) # {}
           /\ AliasOf(text) # <<>>
           /\ Cardinality(Matching(AliasOf(text))) >= 2
           /\ Rules[Least(Matching(AliasOf(text)))].emoji = <<>>
           /\ \E i \in Matching(AliasOf(text)) : Rules[i].emoji # <<>>
           /\ calls[k].effects = <<>>

-----------------------------------------------------------------------------
(* C4 *)

\* the alias of the call equals the emoji of its first matching rule
C4_AliasIsReplacement(c) ==
  /\ Pipes(c.link.text) # {}
  /\ AliasOf(c.link.text) # <<>>
  /\ Matching(AliasOf(c.link.text)) # {}
  /\ Rules[Least(Matching(AliasOf(c.link.text)))].emoji = AliasOf(c.link.text)

\* C4: when the extracted alias already equals the resolved replacement, no
\* mutation is scheduled.
C4_Idempotent ==
  \A k \in 1..Len(calls) : C4_AliasIsReplacement(calls[k]) => calls[k].effects = <<>>

C4_Witness ==
  /\ Handled
  /\ \E k \in 1..Len(calls) : C4_AliasIsReplacement(calls[k]) /\ calls[k].effects = <<>>
  /\ timers = <<>>

-----------------------------------------------------------------------------
(* C2 *)

\* C2: no mutation is dispatched while an update notification is handled:
\* alias processing hands every dispatch to setTimeout, and the callback runs
\* on a later turn, after the handler that scheduled it has returned.
C2_NeverInsideUpdate ==
  /\ [] (reentrant = FALSE)
  /\ [] (\A i \in 1..Len(Scheduled) : Scheduled[i].kind = "setTimeout")
  /\ [][pc = "update" => (doc' = doc /\ sel' = sel /\ fired' = fired)]_vars

\* the handler has returned with its mutation still pending
C2_Witness ==
  /\ Handled
  /\ Scheduled # <<>>
  /\ timers = Scheduled
  /\ fired = Null
  /\ reentrant = FALSE

-----------------------------------------------------------------------------
(* C8 *)

\* C8: a scheduled mutation is never cancelled.  The pending callbacks change
\* only by an update handler queueing all it scheduled behind them, or by the
\* event loop taking the oldest one and dispatching it, on a turn of its own.
C8_NeverCancelled ==
  [][ \/ timers' = timers
      \/ /\ pc = "update"
         /\ timers' = timers \o Effects(calls')
      \/ /\ pc = "idle"
         /\ timers # <<>>
         /\ timers' = Tail(timers)
         /\ fired'.cb = Head(timers) ]_vars

\* a mutation scheduled by an earlier update is still pending when a later
\* update has scheduled another
C8_Witness ==
  /\ Handled
  /\ Len(Scheduled) = 1
  /\ Len(timers) = 2
  /\ timers[2] = Scheduled[1]
  /\ timers[1] # timers[2]

-----------------------------------------------------------------------------
(* C9 *)

\* every callback the update handled last has scheduled carries that
\* update's selection and the user event input
C9_Carries ==
  Handled =>
    \A i \in 1..Len(Scheduled) :
      /\ Scheduled[i].selection = sel
      /\ Scheduled[i].userEvent = <<"input">>

\* the oldest callback runs and its dispatch is accepted
C9_Applied ==
  /\ timers # <<>>
  /\ timers' = Tail(timers)
  /\ fired'.result = "applied"

\* doc' is doc with the code units of [from, to) replaced by insert
C9_OnlyRange(from, to, insert) ==
  /\ Len(doc') = Len(doc) - (to - from) + Len(insert)
  /\ \A i \in 1..from : doc'[i] = doc[i]
  /\ \A i \in 1..Len(insert) : doc'[from + i] = insert[i]
  /\ \A i \in (to + 1)..Len(doc) : doc'[i - (to - from) + Len(insert)] = doc[i]

\* C9: the mutation alias processing dispatches carries the selection of the
\* update that triggered it and the user event input; applying it changes
\* only the replaced range and leaves the selection at that selection.
C9_SelectionAndTag ==
  /\ [] C9_Carries
  /\ [][C9_Applied =>
          /\ C9_OnlyRange(Head(timers).from, Head(timers).to, Head(timers).insert)
          /\ sel' = Head(timers).selection
          /\ upd'.transactions = <<Tr(<<"input">>, TRUE, TRUE)>>]_vars

\* a mutation was applied after the caret had moved on, and the selection is
\* back where the triggering update had it
C9_Witness ==
  /\ pc = "update"
  /\ fired # Null
  /\ fired.result = "applied"
  /\ sel = fired.cb.selection
  /\ upd.startState.selection # sel
  /\ upd.transactions = <<Tr(<<"input">>, TRUE, TRUE)>>

-----------------------------------------------------------------------------
(* C5 *)

\* C5: the Link-Completion Detector triggers alias processing only if the
\* update contains a document change made by a transaction whose user event
\* is input, the main selection is a single collapsed caret and the two code
\* units before the caret are ]]; a change that is not input never triggers.
C5_OnlyOnInput ==
  \A k \in 1..Len(calls) :
    calls[k].by = "completion" => (InputChange /\ CaretBehindClose)

-----------------------------------------------------------------------------
(* C6 *)

\* the slice from the nearest [[ before the caret to the caret is refused
C6_Rejected ==
  \/ Openers(doc, sel.head - 1) = {}
  \/ LET text == C1_Link.text
     IN  \/ ~PairAt(text, Len(text) - 2, "]", "]")
         \/ \E j \in 1..Len(text) : PairAt(text, j, "[", "[")

CompletionCalls == {k \in 1..Len(calls) : calls[k].by = "completion"}

\* C6: with its preconditions met, the Link-Completion Detector takes the
\* nearest [[ before the caret; it starts no alias processing when there is
\* no opener, when the slice from the opener to the caret does not end with
\* ]] or when a second [[ lies inside the slice; otherwise alias processing
\* runs on exactly that slice, from the opener's offset to the caret.
C6_NearestOpener ==
  /\ \A k \in CompletionCalls :
       /\ Openers(doc, sel.head - 1) # {}
       /\ calls[k].link = C1_Link
  /\ (Handled /\ InputChange /\ CaretBehindClose) =>
       (CompletionCalls = {} <=> C6_Rejected)

\* an outer [[ precedes the opener of the link that was processed
C6_Witness ==
  /\ Handled
  /\ \E k \in CompletionCalls :
       /\ calls[k].link.from > 0
       /\ Openers(doc, calls[k].link.from - 1) # {}
       /\ calls[k].link.to = sel.head

-----------------------------------------------------------------------------
(* C7 *)

\* the link around offset p: nearest [[ at or before p, first ]] from there
C7_HasLink(p) ==
  /\ Openers(doc, p) # {}
  /\ Closers(doc, Greatest(Openers(doc, p))) # {}
  /\ p <= Least(Closers(doc, Greatest(Openers(doc, p)))) + 2

C7_LinkAt(p) ==
  LET o == Greatest(Openers(doc, p))
      to == Least(Closers(doc, o)) + 2
  IN  Link(o, to, SubSeq(doc, o + 1, to))

CaretExitCalls == {k \in 1..Len(calls) : calls[k].by = "caretExit"}

\* the update set the selection, and a collapsed caret went from one offset
\* to another
C7_CaretMoved ==
  /\ \E i \in 1..Len(upd.transactions) : upd.transactions[i].selection
  /\ upd.startState.selection.anchor = upd.startState.selection.head
  /\ sel.anchor = sel.head
  /\ upd.startState.selection.head # sel.head

-----------------------------------------------------------------------------
(* C10: the facet on its own.  Extensions contribute arrays one by one.    *)

FacetRules == {RPerson, RSwapA, RAny}

RECURSIVE Arrays(_)
Arrays(n) ==
  IF n = 0 THEN {<<>>}
  ELSE Arrays(n - 1) \cup {Append(a, r) : a \in {b \in Arrays(n - 1) : Len(b) = n - 1}, r \in FacetRules}

\* an extension provides SLD_SettingsFacet.of(mappings)
Contribute(mappings) ==
  /\ Len(values) < MaxContribs
  /\ values' = Append(values, mappings)
  /\ UNCHANGED <<doc, sel, timers, pc, upd, calls, fired, reentrant, steps>>
  /\ UNCHANGED decoVars

InitFacet ==
  /\ doc = <<>>
  /\ sel = Caret(0)
  /\ values = <<>>
  /\ timers = <<>>
  /\ pc = "idle"
  /\ upd = [startState |-> [doc |-> doc, selection |-> sel], transactions |-> <<>>]
  /\ calls = <<>>
  /\ fired = Null
  /\ reentrant = FALSE
  /\ steps = 0
  /\ NoDecorator

NextFacet == \E mappings \in Arrays(MaxArrayLen) : Contribute(mappings)

SpecFacet == InitFacet /\ [][NextFacet]_vars

\* the contributed rules in contribution order
RECURSIVE Flat(_)
Flat(vals) == IF vals = <<>> THEN <<>> ELSE Head(vals) \o Flat(Tail(vals))

\* the places of the rules with prefix p among the contributed rules
Places(p) == {i \in 1..Len(Flat(values)) : Flat(values)[i].prefix = p}

\* C10: the merge returns exactly one rule per distinct prefix: the rule
\* contributed last for that prefix, at the place where the prefix was first
\* inserted; without contributors the result is empty, and without colliding
\* prefixes it is the concatenation of the contributions.
C10_Merge ==
  LET out == combine(values)
      all == Flat(values)
  IN  /\ \A i, j \in 1..Len(out) : out[i].prefix = out[j].prefix => i = j
      /\ {out[i].prefix : i \in 1..Len(out)} = {all[i].prefix : i \in 1..Len(all)}
      /\ \A i \in 1..Len(out) : out[i] = all[Greatest(Places(out[i].prefix))]
      /\ \A i, j \in 1..Len(out) :
           i < j => Least(Places(out[i].prefix)) < Least(Places(out[j].prefix))
      /\ values = <<>> => out = <<>>
      /\ (\A i, j \in 1..Len(all) : all[i].prefix = all[j].prefix => i = j) => out = all

\* a later contribution has overwritten a rule that is not the last one of
\* the result: the overwritten prefix kept its place
C10_Witness ==
  LET out == combine(values)
      all == Flat(values)
  IN  /\ Len(values) = 2
      /\ Len(out) = 2
      /\ Len(all) = 3
      /\ out[1] = all[3]
      /\ out[1] # all[1]
      /\ out[1].prefix = all[1].prefix

-----------------------------------------------------------------------------
(* buildDecorations.ts: decorate *)

\* sequences over S of length n, and of length at most n
RECURSIVE SeqsOf(_, _)
SeqsOf(S, n) ==
  IF n = 0 THEN {<<>>} ELSE {Append(a, x) : a \in SeqsOf(S, n - 1), x \in S}

SeqsUpTo(S, n) == UNION {SeqsOf(S, k) : k \in 0..n}

\* new RangeSetBuilder<Decoration>(): the add calls received, and whether
\* one of them threw
NewBuilder == [calls |-> <<>>, error |-> FALSE]

\* builder.add(from, to, value): "Ranges must be added sorted by `from`
\* position and `startSide`" is thrown for a range that starts before the
\* range added last (all marks have the same startSide)
BuilderAdd(builder, from, to, value) ==
  [calls |-> Append(builder.calls, [from |-> from, to |-> to, value |-> value]),
   error |-> (builder.error
               \/ (builder.calls # <<>> /\ from < builder.calls[Len(builder.calls)].from))]

\* builder.finish(): the ranges in the order they were added
BuilderFinish(builder) == builder.calls

DATA_SLD_TYPE == "data-sld-type"

\* { ...a, ...b }: the properties of b over those of a
Spread(a, b) == b @@ a

\* spec.attributes || {}
AttributesOf(spec) == IF "attributes" \in DOMAIN spec THEN spec["attributes"] ELSE <<>>

\* Decoration.mark(spec)
DecorationMark(spec) == [mark |-> spec]

\* variant: the rules are tried from the last one
decorate_lastRule(builder, settings, spec, alias, startFrom, endTo) ==
  LET hits == {i \in 1..Len(settings) :
                 startsWith(alias, settings[i].prefix) \/ startsWith(alias, settings[i].emoji)}
  IN  IF hits = {} THEN builder
      ELSE LET setting == settings[CHOOSE i \in hits : \A j \in hits : j <= i]
               attributes == (DATA_SLD_TYPE :> setting.linkType)
               newspec == Spread(spec, [attributes |-> Spread(AttributesOf(spec), attributes)])
           IN  BuilderAdd(builder, startFrom, endTo, DecorationMark(newspec))

\* for (const setting of settings): the first setting whose prefix or emoji
\* starts the alias adds the mark and returns
RECURSIVE decorate(_, _, _, _, _, _)
decorate(builder, settings, spec, alias, startFrom, endTo) ==
  IF settings = <<>> THEN builder
  ELSE LET setting == Head(settings)
       IN  IF startsWith(alias, setting.prefix) \/ startsWith(alias, setting.emoji)
           THEN LET attributes == (DATA_SLD_TYPE :> setting.linkType)
                    newspec == Spread(spec, [attributes |-> Spread(AttributesOf(spec), attributes)])
                    decoration == DecorationMark(newspec)
                IN  BuilderAdd(builder, startFrom, endTo, decoration)
           ELSE decorate(builder, Tail(settings), spec, alias, startFrom, endTo)

\* the rules, templates and aliases decorate is called with
DecorateRules == {RPerson, RMute, RAny, RSwapB}
Templates ==
  { <<>>,
    [class |-> "cm-link"],
    [attributes |-> [class |-> "test-class"]],
    [class |-> "cm-link", attributes |-> (DATA_SLD_TYPE :> "old-type") @@ [class |-> "test-class"]] }
Aliases == { <<>>, <<"@", "a">>, <<"H", "L", "a">>, <<"a">>, <<"b">>, <<"H">> }
Builders == { NewBuilder, BuilderAdd(NewBuilder, 0, 1, DecorationMark(<<>>)) }

Decorate(builder, settings, spec, alias, startFrom, endTo) ==
  /\ arg = Null
  /\ arg' = [fn |-> "decorate", builder |-> builder, settings |-> settings, spec |-> spec,
             alias |-> alias, startFrom |-> startFrom, endTo |-> endTo]
  /\ ret' = [builder |-> decorate(builder, settings, spec, alias, startFrom, endTo)]
  /\ UNCHANGED editorVars
  /\ UNCHANGED <<tree, facet, decorations>>

\* the alias replacement plugin is not used
NoEditor ==
  /\ doc = <<>>
  /\ sel = Caret(0)
  /\ values = <<>>
  /\ timers = <<>>
  /\ pc = "idle"
  /\ upd = [startState |-> [doc |-> doc, selection |-> sel], transactions |-> <<>>]
  /\ calls = <<>>
  /\ fired = Null
  /\ reentrant = FALSE
  /\ steps = 0

InitDecorate == NoEditor /\ NoDecorator

\* one call per behaviour
NextDecorate ==
  /\ arg = Null
  /\ \E builder \in Builders, settings \in SeqsUpTo(DecorateRules, MaxArrayLen),
        spec \in Templates, alias \in Aliases, startFrom \in {1, 2} :
       Decorate(builder, settings, spec, alias, startFrom, startFrom + 2)

SpecDecorate == InitDecorate /\ [][NextDecorate]_vars

\* p is a prefix of a
IsPrefixOf(p, a) == Len(p) <= Len(a) /\ \A k \in 1..Len(p) : p[k] = a[k]

\* the places of the rules whose prefix or emoji is a prefix of the alias
C11_Matches(settings, alias) ==
  {i \in 1..Len(settings) : IsPrefixOf(settings[i].prefix, alias) \/ IsPrefixOf(settings[i].emoji, alias)}

-----------------------------------------------------------------------------
(* utils/parse.ts: parseWikiLink *)

MaxLinkLen == 7

\* the number of code units from offset i on that are not in Stop: what a
\* greedy negated character class [^..]* consumes
RECURSIVE Run(_, _, _)
Run(s, i, Stop) ==
  IF i < Len(s) /\ s[i + 1] \notin Stop THEN 1 + Run(s, i + 1, Stop) ELSE 0

\* variant: the alias class excludes the separator as well
WIKI_LINK_REGEX_aliasWithoutPipe(s) ==
  IF ~startsWith(s, OPEN) THEN Null
  ELSE LET n1 == Run(s, 2, {"|", "]"})
           n2 == Run(s, 2 + n1 + 1, {"|", "]"})
       IN  IF /\ 2 + n1 < Len(s) /\ s[2 + n1 + 1] = "|"
              /\ slice(s, 2 + n1 + 1 + n2, Len(s)) = CLOSE
           THEN [g1 |-> slice(s, 2, 2 + n1), g2 |-> slice(s, 2 + n1 + 1, 2 + n1 + 1 + n2)]
           ELSE Null

\* linkString.match(/^\[\[([^|\]]*)\|([^\]]*)\]\]$/): each class is followed
\* by a character outside it, so the greedy match is the only one
WIKI_LINK_REGEX(s) ==
  IF ~startsWith(s, OPEN) THEN Null
  ELSE LET n1 == Run(s, 2, {"|", "]"})
           n2 == Run(s, 2 + n1 + 1, {"]"})
       IN  IF /\ 2 + n1 < Len(s) /\ s[2 + n1 + 1] = "|"
              /\ slice(s, 2 + n1 + 1 + n2, Len(s)) = CLOSE
           THEN [g1 |-> slice(s, 2, 2 + n1), g2 |-> slice(s, 2 + n1 + 1, 2 + n1 + 1 + n2)]
           ELSE Null

\* [match?.[1] ?? "", match?.[2] ?? ""]
parseWikiLink(linkString) ==
  LET match == WIKI_LINK_REGEX(linkString)
      filename == IF match = Null THEN <<>> ELSE match.g1
      alias == IF match = Null THEN <<>> ELSE match.g2
  IN  <<filename, alias>>

\* the brackets, the separator and one ordinary character, a blank
LinkChars == {"[", "]", "|", " "}

ParseWikiLink(linkString) ==
  /\ arg = Null
  /\ arg' = [fn |-> "parseWikiLink", linkString |-> linkString]
  /\ ret' = [parts |-> parseWikiLink(linkString)]
  /\ UNCHANGED editorVars
  /\ UNCHANGED <<tree, facet, decorations>>

InitParse == NoEditor /\ NoDecorator

\* one call per behaviour
NextParse ==
  /\ arg = Null
  /\ \E linkString \in SeqsUpTo(LinkChars, MaxLinkLen) : ParseWikiLink(linkString)

SpecParse == InitParse /\ [][NextParse]_vars

\* the string is "[[" + target + "|" + alias + "]]" for the target up to the
\* first | and the alias after it
C14_Target(s) == SubSeq(s, 3, Least(Pipes(s)) - 1)
C14_Alias(s) == SubSeq(s, Least(Pipes(s)) + 1, Len(s) - 2)
Has(s, c) == \E i \in 1..Len(s) : s[i] = c
C14_WellFormed(s) ==
  /\ Len(s) >= 5
  /\ SubSeq(s, 1, 2) = OPEN
  /\ SubSeq(s, Len(s) - 1, Len(s)) = CLOSE
  /\ \E i \in 3..Len(s) - 2 : s[i] = "|"
  /\ ~Has(C14_Target(s), "]")
  /\ ~Has(C14_Alias(s), "]")

C15_NestedOpener ==
  (/\ arg # Null /\ arg.fn = "parseWikiLink"
   /\ startsWith(arg.linkString, OPEN)
   /\ indexOf(arg.linkString, OPEN, 2) # -1) => ret.parts = << <<>>, <<>> >>

-----------------------------------------------------------------------------
(* buildDecorations.ts: the syntax tree, its cursors and matchesInternalLink *)
(*                                                                         *)
(* A node type name is a sequence of tokens, the "_" between two fragments *)
(* being a token of its own.  A tree is the sequence of its nodes in       *)
(* pre-order, each with its type name, its range and the index of its      *)
(* parent; node 1 is the top node.  The cursors live in a heap: a cursor   *)
(* is an index into it, the heap holds the node each cursor is at.         *)

MaxSiblings == 6
MaxDepth == 1

FLINK == <<"formatting-link">>
FLINKSTART == <<"formatting-link-start">>
FLINKEND == <<"formatting-link-end">>
ILINK == <<"hmd-internal-link">>
LINKHASALIAS == <<"link-has-alias">>
LINKALIASPIPE == <<"link-alias-pipe">>
LINKALIAS == <<"link-alias">>

\* name.split(sep)
RECURSIVE split(_, _)
split(name, sep) ==
  LET at == {i \in 1..Len(name) : name[i] = sep}
  IN  IF at = {} THEN <<name>>
      ELSE <<SubSeq(name, 1, Least(at) - 1)>>
             \o split(SubSeq(name, Least(at) + 1, Len(name)), sep)

\* fragments.includes(fragment)
includes(fragments, fragment) == \E i \in 1..Len(fragments) : fragments[i] = fragment

NoCursor == 0

\* TreeCursor.firstChild(), nextSibling(), parent(): the node moved to, or 0
FirstChildOf(t, n) == IF n < Len(t) /\ t[n + 1].parent = n THEN n + 1 ELSE 0
NextSiblingOf(t, n) ==
  LET later == {m \in n + 1..Len(t) : t[m].parent = t[n].parent}
  IN  IF later = {} THEN 0 ELSE Least(later)

\* variant: the clone is the cursor itself
NodeCursor_same(heap, cursor) == [heap |-> heap, cursor |-> cursor]

\* cursor.node.cursor(): a new cursor at the same node
NodeCursor(heap, cursor) == [heap |-> Append(heap, heap[cursor]), cursor |-> Len(heap) + 1]

\* cursor.nextSibling(): moves the cursor when there is a next sibling
CursorNextSibling(t, heap, cursor) ==
  LET m == NextSiblingOf(t, heap[cursor])
  IN  IF m = 0 THEN [heap |-> heap, ok |-> FALSE]
      ELSE [heap |-> [heap EXCEPT ![cursor] = m], ok |-> TRUE]

\* cursor.firstChild()
CursorFirstChild(t, heap, cursor) ==
  LET m == FirstChildOf(t, heap[cursor])
  IN  IF m = 0 THEN [heap |-> heap, ok |-> FALSE]
      ELSE [heap |-> [heap EXCEPT ![cursor] = m], ok |-> TRUE]

\* cursor.parent()
CursorParent(t, heap, cursor) ==
  LET m == t[heap[cursor]].parent
  IN  IF m = 0 THEN heap ELSE [heap EXCEPT ![cursor] = m]

getFragments(t, heap, cursor) == split(t[heap[cursor]].name, "_")

isFLinkStart(fragments) == includes(fragments, FLINK) /\ includes(fragments, FLINKSTART)
isFLinkEnd(fragments) == includes(fragments, FLINK) /\ includes(fragments, FLINKEND)
isInternalLinkWithAlias(fragments) == includes(fragments, ILINK) /\ includes(fragments, LINKHASALIAS)
isInternalLinksPipe(fragments) == includes(fragments, ILINK) /\ includes(fragments, LINKALIASPIPE)
isInternalLinksAlias(fragments) == includes(fragments, ILINK) /\ includes(fragments, LINKALIAS)

\* the heap after the call and the cursor returned (NoCursor for null)
onMatchContinue(t, heap, cursor, match(_), next(_, _)) ==
  LET fragments == getFragments(t, heap, cursor)
  IN  IF ~match(fragments) THEN [heap |-> heap, cursor |-> NoCursor]
      ELSE next(heap, cursor)

\* variant: the alias node is not asked for
matchesInternalLink_noAlias(t, heap, cursor) ==
  LET probe == NodeCursor(heap, cursor)
      Step(h, c, match(_), next(_, _)) ==
        LET s == CursorNextSibling(t, h, c)
        IN  IF ~s.ok THEN [heap |-> s.heap, cursor |-> NoCursor]
            ELSE onMatchContinue(t, s.heap, c, match, next)
  IN  onMatchContinue(t, probe.heap, probe.cursor, isFLinkStart, LAMBDA h1, c1 :
        Step(h1, c1, isInternalLinkWithAlias, LAMBDA h2, c2 :
          Step(h2, c2, isInternalLinksPipe, LAMBDA h3, c3 :
            Step(h3, c3, isFLinkEnd, LAMBDA h5, c5 : NodeCursor(h5, c5)))))

matchesInternalLink(t, heap, cursor) ==
  LET probe == NodeCursor(heap, cursor)
  IN  onMatchContinue(t, probe.heap, probe.cursor, isFLinkStart, LAMBDA h1, c1 :
        LET s1 == CursorNextSibling(t, h1, c1)
        IN  IF ~s1.ok THEN [heap |-> s1.heap, cursor |-> NoCursor]
            ELSE onMatchContinue(t, s1.heap, c1, isInternalLinkWithAlias, LAMBDA h2, c2 :
              LET s2 == CursorNextSibling(t, h2, c2)
              IN  IF ~s2.ok THEN [heap |-> s2.heap, cursor |-> NoCursor]
                  ELSE onMatchContinue(t, s2.heap, c2, isInternalLinksPipe, LAMBDA h3, c3 :
                    LET s3 == CursorNextSibling(t, h3, c3)
                    IN  IF ~s3.ok THEN [heap |-> s3.heap, cursor |-> NoCursor]
                        ELSE onMatchContinue(t, s3.heap, c3, isInternalLinksAlias, LAMBDA h4, c4 :
                          LET s4 == CursorNextSibling(t, h4, c4)
                          IN  IF ~s4.ok THEN [heap |-> s4.heap, cursor |-> NoCursor]
                              ELSE onMatchContinue(t, s4.heap, c4, isFLinkEnd, LAMBDA h5, c5 :
                                NodeCursor(h5, c5))))))

-----------------------------------------------------------------------------
(* The syntax trees and documents the model runs on *)

Join(a, b) == a \o <<"_">> \o b

\* the node types of [[prefix|alias]]
NodeStart == Join(FLINK, FLINKSTART)
NodePrefix == Join(ILINK, LINKHASALIAS)
NodePipe == Join(ILINK, LINKALIASPIPE)
NodeAlias == Join(ILINK, LINKALIAS)
NodeEnd == Join(FLINK, FLINKEND)
\* the text of a link without an alias, and the top node
NodeOther == ILINK
NodeTop == <<"Document">>

RoleNode(k) ==
  CASE k = 1 -> NodeStart [] k = 2 -> NodePrefix [] k = 3 -> NodePipe
    [] k = 4 -> NodeAlias [] k = 5 -> NodeEnd

\* the same type inside emphasis: one more fragment, the others in reverse
Emphasised(name) ==
  LET f == split(name, "_")
  IN  IF Len(f) = 2 THEN Join(Join(f[2], <<"em">>), f[1]) ELSE Join(<<"em">>, name)

\* the text a leaf of the type covers
TextOf(name) ==
  LET f == split(name, "_")
  IN  CASE isFLinkStart(f) -> OPEN
        [] isFLinkEnd(f) -> CLOSE
        [] isInternalLinksPipe(f) -> PIPE
        [] isInternalLinksAlias(f) -> <<"@", "a">>
        [] isInternalLinkWithAlias(f) -> <<"t">>
        [] OTHER -> <<"x">>

Leaf(name) == [name |-> name, children |-> <<>>]

\* the nodes of a forest in pre-order, laid out from offset pos on; a node
\* with children covers them, a leaf covers its text
RECURSIVE LayOut(_, _, _, _)
LayOut(forest, parent, base, pos) ==
  IF forest = <<>> THEN [nodes |-> <<>>, text |-> <<>>]
  ELSE LET n == Head(forest)
           me == base + 1
           kids == IF n.children = <<>>
                   THEN [nodes |-> <<>>, text |-> TextOf(n.name)]
                   ELSE LayOut(n.children, me, me, pos)
           to == pos + Len(kids.text)
           node == [name |-> n.name, from |-> pos, to |-> to, parent |-> parent]
           rest == LayOut(Tail(forest), parent, me + Len(kids.nodes), to)
       IN  [nodes |-> <<node>> \o kids.nodes \o rest.nodes, text |-> kids.text \o rest.text]

\* the tree of a document and the document
TreeOf(forest) ==
  LET l == LayOut(forest, 1, 1, 0)
  IN  [tree |-> <<[name |-> NodeTop, from |-> 0, to |-> Len(l.text), parent |-> 0]>> \o l.nodes,
       doc |-> l.text]

\* siblings under the top node: each is the node the link has at its place,
\* the node the link has at the next place, or another node
SiblingName(i, choice, em) ==
  LET k == ((i - 1) % 5) + 1
      name == CASE choice = "role" -> RoleNode(k)
                [] choice = "next" -> RoleNode((k % 5) + 1)
                [] choice = "other" -> NodeOther
  IN  IF em THEN Emphasised(name) ELSE name

FlatForests ==
  UNION { { [i \in 1..n |-> Leaf(SiblingName(i, ch[i], em))] :
              ch \in [1..n -> {"role", "next", "other"}] } :
          n \in 0..MaxSiblings, em \in BOOLEAN }

WikiLink == [i \in 1..5 |-> Leaf(RoleNode(i))]
Pieces ==
  { WikiLink,
    <<Leaf(NodeOther)>> \o WikiLink \o [i \in 1..5 |-> Leaf(Emphasised(RoleNode(i)))],
    SubSeq(WikiLink, 1, 4),
    <<Leaf(NodeOther)>> }

\* forests in which the first, the second or the last node of a piece has a
\* forest as its children
RECURSIVE NestedForests(_)
NestedForests(depth) ==
  IF depth = 0 THEN Pieces
  ELSE Pieces \cup
       UNION { { [outer EXCEPT ![k].children = inner] :
                   k \in {1, 2, Len(outer)} \cap (1..Len(outer)),
                   inner \in NestedForests(depth - 1) } :
               outer \in Pieces }

Forests == FlatForests \cup NestedForests(MaxDepth)

-----------------------------------------------------------------------------
(* buildDecorations.ts: findWikiLinks and buildLinkDecorations *)

\* view.state.sliceDoc(from, to)
sliceDoc(d, from, to) == slice(d, from, to)

\* what the traversal did, in order
MatchEvent(n) == [op |-> "matchesInternalLink", node |-> n]
DescendEvent(n) == [op |-> "firstChild", node |-> n]
CallbackEvent(from, to, fname, alias) ==
  [op |-> "callback", from |-> from, to |-> to, fname |-> fname, alias |-> alias]

\* the rest of the loop body once matchCursor is known: for a match, the
\* callback with the parts of the link text
Matched(view, st, cursor, matchCursor) ==
  LET h == matchCursor.heap
      tried == Append(st.log, MatchEvent(st.heap[cursor]))
  IN  IF matchCursor.cursor # NoCursor
      THEN LET from == view.tree[h[cursor]].from
               to == view.tree[h[matchCursor.cursor]].to
               linkText == sliceDoc(view.doc, from, to)
               parts == parseWikiLink(linkText)
           IN  [heap |-> h, log |-> Append(tried, CallbackEvent(from, to, parts[1], parts[2]))]
      ELSE [heap |-> h, log |-> tried]

\* the match at the node of the cursor and, for a match, the callback
Visit(view, st, cursor) ==
  Matched(view, st, cursor, matchesInternalLink(view.tree, st.heap, cursor))

\* variant: cursor.parent() is not called after the children
RECURSIVE traverse_noParent(_, _, _)
traverse_noParent_children(view, seen, cursor) ==
  LET child == CursorFirstChild(view.tree, seen.heap, cursor)
      below == IF child.ok
               THEN traverse_noParent(view, [heap |-> child.heap,
                                             log |-> Append(seen.log, DescendEvent(seen.heap[cursor]))],
                                      cursor)
               ELSE seen
      sibling == CursorNextSibling(view.tree, below.heap, cursor)
  IN  IF sibling.ok THEN traverse_noParent(view, [below EXCEPT !.heap = sibling.heap], cursor)
      ELSE below

traverse_noParent(view, st, cursor) ==
  traverse_noParent_children(view, Visit(view, st, cursor), cursor)

\* cursor.parent() after the traversal of the children
Up(view, inner, cursor) == [inner EXCEPT !.heap = CursorParent(view.tree, inner.heap, cursor)]

\* variant: the children are traversed before the match at their parent
RECURSIVE traverse_childrenFirst(_, _, _)
traverse_childrenFirst_match(view, seen, cursor) ==
  LET sibling == CursorNextSibling(view.tree, seen.heap, cursor)
  IN  IF sibling.ok THEN traverse_childrenFirst(view, [seen EXCEPT !.heap = sibling.heap], cursor)
      ELSE seen

traverse_childrenFirst(view, st, cursor) ==
  LET child == CursorFirstChild(view.tree, st.heap, cursor)
      below == IF child.ok
               THEN Up(view, traverse_childrenFirst(view, [heap |-> child.heap,
                                                           log |-> Append(st.log, DescendEvent(st.heap[cursor]))],
                                                    cursor),
                       cursor)
               ELSE st
  IN  traverse_childrenFirst_match(view, Visit(view, below, cursor), cursor)

\* the loop body after the match: if (cursor.firstChild()) { traverse(cursor);
\* cursor.parent() }, and while (cursor.nextSibling()) the body again
RECURSIVE traverse(_, _, _)
traverse_children(view, seen, cursor) ==
  LET child == CursorFirstChild(view.tree, seen.heap, cursor)
      below == IF child.ok
               THEN Up(view, traverse(view, [heap |-> child.heap,
                                             log |-> Append(seen.log, DescendEvent(seen.heap[cursor]))],
                                      cursor),
                       cursor)
               ELSE seen
      sibling == CursorNextSibling(view.tree, below.heap, cursor)
  IN  IF sibling.ok THEN traverse(view, [below EXCEPT !.heap = sibling.heap], cursor)
      ELSE below

\* do { match; children } while (cursor.nextSibling())
traverse(view, st, cursor) == traverse_children(view, Visit(view, st, cursor), cursor)

\* the heap and the log after findWikiLinks(view, cursor, callback); the
\* callback runs inside the traversal, at its place in the log
findWikiLinks(view, heap, cursor) == traverse(view, [heap |-> heap, log |-> <<>>], cursor)

\* the callback of buildLinkDecorations, for the callback events in order
RECURSIVE DecorateAll(_, _, _)
DecorateAll(builder, settings, log) ==
  IF log = <<>> THEN builder
  ELSE LET e == Head(log)
       IN  IF e.op # "callback" THEN DecorateAll(builder, settings, Tail(log))
           ELSE IF builder.error THEN builder
           ELSE DecorateAll(decorate(builder, settings, <<>>, e.alias, e.from, e.to),
                            settings, Tail(log))

\* builder.finish(), or the exception of an add
Built(builder) ==
  [threw |-> builder.error, adds |-> builder.calls,
   set |-> IF builder.error THEN <<>> ELSE BuilderFinish(builder)]

\* tree.cursor() is at the top node; an add that throws ends the build
buildLinkDecorations(view, settings) ==
  Built(DecorateAll(NewBuilder, settings, findWikiLinks(view, <<1>>, 1).log))

-----------------------------------------------------------------------------
(* Calls of matchesInternalLink on a view's syntax tree *)

\* the caller holds cursor 1 at node n
MatchesInternalLink(n) ==
  /\ arg = Null
  /\ arg' = [fn |-> "matchesInternalLink", heap |-> <<n>>, cursor |-> 1]
  /\ ret' = matchesInternalLink(tree, <<n>>, 1)
  /\ UNCHANGED editorVars
  /\ UNCHANGED <<tree, facet, decorations>>

\* the view of the calls: its syntax tree and its document
View == [tree |-> tree, doc |-> doc]

\* the caller holds cursor 1 at node n
FindWikiLinks(n) ==
  /\ arg = Null
  /\ arg' = [fn |-> "findWikiLinks", heap |-> <<n>>, cursor |-> 1]
  /\ ret' = findWikiLinks(View, <<n>>, 1)
  /\ UNCHANGED editorVars
  /\ UNCHANGED <<tree, facet, decorations>>

BuildLinkDecorations(settings) ==
  /\ arg = Null
  /\ arg' = [fn |-> "buildLinkDecorations", settings |-> settings]
  /\ ret' = buildLinkDecorations(View, settings)
  /\ UNCHANGED editorVars
  /\ UNCHANGED <<tree, facet, decorations>>

\* the view shows a document and its syntax tree; no plugin is constructed
InitTree ==
  /\ \E forest \in Forests : tree = TreeOf(forest).tree /\ doc = TreeOf(forest).doc
  /\ sel = Caret(0)
  /\ values = <<>>
  /\ timers = <<>>
  /\ pc = "idle"
  /\ upd = [startState |-> [doc |-> doc, selection |-> sel], transactions |-> <<>>]
  /\ calls = <<>>
  /\ fired = Null
  /\ reentrant = FALSE
  /\ steps = 0
  /\ facet = Null
  /\ decorations = Null
  /\ arg = Null
  /\ ret = Null

\* the fragments of a type name: its tokens other than the separator
Tokens(name) == {<<name[i]>> : i \in {j \in 1..Len(name) : name[j] # "_"}}

\* the two identifying tokens of each role, in the order of the link
RoleTokens ==
  << {FLINK, FLINKSTART}, {ILINK, LINKHASALIAS}, {ILINK, LINKALIASPIPE},
     {ILINK, LINKALIAS}, {FLINK, FLINKEND} >>

HasRole(node, k) == RoleTokens[k] \subseteq Tokens(node.name)

\* the node k places after n among the children of n's parent, or 0
RECURSIVE SiblingAfter(_, _, _)
SiblingAfter(t, n, k) ==
  IF k = 0 \/ n = 0 THEN n
  ELSE LET later == {m \in n + 1..Len(t) : t[m].parent = t[n].parent}
       IN  SiblingAfter(t, IF later = {} THEN 0 ELSE Least(later), k - 1)

\* the five roles are carried, in order, by n and its next four siblings
C12_Sequence(t, n) ==
  \A k \in 1..5 : SiblingAfter(t, n, k - 1) # 0 /\ HasRole(t[SiblingAfter(t, n, k - 1)], k)

\* C12: matchesInternalLink returns a cursor, and one at the end-marker node,
\* exactly when the start node and its next four siblings carry the roles
\* link-start, has-alias, alias-pipe, alias, link-end in this order; with a
\* role missing or out of order, or a sibling absent, it returns null.
C12_FiveRoles ==
  (arg # Null /\ arg.fn = "matchesInternalLink") =>
    LET n == arg.heap[arg.cursor]
    IN  IF C12_Sequence(tree, n)
        THEN ret.cursor # NoCursor /\ ret.heap[ret.cursor] = SiblingAfter(tree, n, 4)
        ELSE ret.cursor = NoCursor

\* a match of a link whose type names have an extra fragment and the
\* identifying ones in reverse order, behind another link
C12_Witness ==
  /\ arg # Null /\ arg.fn = "matchesInternalLink"
  /\ ret.cursor # NoCursor
  /\ arg.heap[arg.cursor] > 6
  /\ Cardinality(Tokens(tree[ret.heap[ret.cursor]].name)) = 3

\* C19: after matchesInternalLink, successful or not, the caller's cursor is
\* at the node it was at; the cursor returned is a new cursor, neither the
\* caller's nor the probe.
C19_CursorNotMoved ==
  (arg # Null /\ arg.fn = "matchesInternalLink") =>
    /\ \A c \in DOMAIN arg.heap : ret.heap[c] = arg.heap[c]
    /\ ret.cursor # NoCursor =>
         /\ ret.cursor \notin DOMAIN arg.heap
         /\ ret.cursor = Len(ret.heap)
         /\ Len(ret.heap) = Len(arg.heap) + 2

\* a failed match whose probe went three siblings on
C19_Witness ==
  /\ arg # Null /\ arg.fn = "matchesInternalLink"
  /\ ret.cursor = NoCursor
  /\ Len(ret.heap) = 2
  /\ ret.heap[2] = SiblingAfter(tree, arg.heap[1], 3)
  /\ ret.heap[2] # 0
  /\ ret.heap[1] = arg.heap[1]

\* one call per behaviour
NextTree ==
  \/ \E n \in 1..Len(tree) : MatchesInternalLink(n)
  \/ \E n \in 1..Len(tree) : FindWikiLinks(n)
  \/ \E v \in AllValues : BuildLinkDecorations(combine(v))

SpecTree == InitTree /\ [][NextTree]_vars

\* a node and its ancestors
RECURSIVE SelfAndAncestors(_, _)
SelfAndAncestors(t, m) == IF m = 0 THEN {} ELSE {m} \cup SelfAndAncestors(t, t[m].parent)

\* the nodes reachable from a cursor at n: n, its following siblings and all
\* their descendants
Reachable(t, n) ==
  {m \in 1..Len(t) : \E a \in SelfAndAncestors(t, m) : a >= n /\ t[a].parent = t[n].parent}

\* the places of the events of one kind in a log
Places_of(log, op) == {i \in 1..Len(log) : log[i].op = op}

\* what the callback is owed for a match at node n
C13_Callback(n) ==
  LET from == tree[n].from
      to == tree[SiblingAfter(tree, n, 4)].to
      parts == parseWikiLink(SubSeq(doc, from + 1, to))
  IN  CallbackEvent(from, to, parts[1], parts[2])

\* the log of a traversal from node n
C13_Log(log, n) ==
  LET tries == Places_of(log, "matchesInternalLink")
  IN  \* one attempt at every reachable node and at no other
      /\ {log[i].node : i \in tries} = Reachable(tree, n)
      /\ Cardinality(tries) = Cardinality(Reachable(tree, n))
      \* in pre-order: the tree lists its nodes in pre-order
      /\ \A i, j \in tries : i < j => log[i].node < log[j].node
      \* the children of a node are entered after the attempt at the node
      \* and before any attempt below it
      /\ \A j \in Places_of(log, "firstChild") :
           /\ \E i \in tries : i < j /\ log[i].node = log[j].node
           /\ \A i \in tries : (i < j) => log[j].node \notin SelfAndAncestors(tree, tree[log[i].node].parent)
      \* one callback right after each successful attempt, and no other
      /\ \A i \in tries :
           IF C12_Sequence(tree, log[i].node)
           THEN i < Len(log) /\ log[i + 1] = C13_Callback(log[i].node)
           ELSE i = Len(log) \/ log[i + 1].op # "callback"
      /\ \A j \in Places_of(log, "callback") : j > 1 /\ (j - 1) \in tries

\* C13: findWikiLinks attempts the match once at every node reachable from
\* the start cursor, in pre-order and before it enters the children of the
\* node; each match is followed by one callback with the node's from, the
\* end marker's to and the parts parsed from the slice of the document; the
\* traversal ends, and the document and the tree are left as they are.
C13_Traversal ==
  /\ [](arg # Null /\ arg.fn = "findWikiLinks" => C13_Log(ret.log, arg.heap[arg.cursor]))
  /\ [][arg'.fn = "findWikiLinks" => (doc' = doc /\ tree' = tree)]_vars

\* a traversal that starts below the top node, enters children, comes back
\* to a following sibling and reports two links
C13_Witness ==
  /\ arg # Null /\ arg.fn = "findWikiLinks"
  /\ arg.heap[arg.cursor] > 1
  /\ Cardinality(Places_of(ret.log, "callback")) >= 2
  /\ \E j \in Places_of(ret.log, "firstChild") :
       \E i \in Places_of(ret.log, "matchesInternalLink") :
         i > j /\ tree[ret.log[i].node].parent = tree[ret.log[j].node].parent

\* the children lie within their parent's range and the siblings are ordered
\* by position
C16_WellFormed(t) ==
  /\ \A m \in 2..Len(t) : t[t[m].parent].from <= t[m].from /\ t[m].to <= t[t[m].parent].to
  /\ \A m \in 1..Len(t) : t[m].from <= t[m].to
  /\ \A m, k \in 2..Len(t) : (m < k /\ t[m].parent = t[k].parent) => t[m].to <= t[k].from

-----------------------------------------------------------------------------
(* CMLinkDecoratorPlugin.ts: the decorator plugin of one view *)

MaxUpdates == 2

\* the documents the view shows: a link, a text with two links, no text
DecoratorForests ==
  { WikiLink,
    <<Leaf(NodeOther)>> \o WikiLink \o [i \in 1..5 |-> Leaf(Emphasised(RoleNode(i)))],
    <<>> }

\* the mappings the facet is configured with
DecoratorValues == {ValuesPerson, ValuesSwap, ValuesNone}

\* a !== b on two facet values: the arrays are compared by identity; the
\* state computes a new array whenever a provider of the facet is replaced
SameObject(a, b) == a.id = b.id

\* constructor(view)
CMLinkDecoratorPlugin_constructor(view) ==
  LET settings == view.facet.value
  IN  [build |-> 1, result |-> buildLinkDecorations(view, settings)]

\* variant: the facet values are compared by content
CMLinkDecoratorPlugin_update_byContent(u, instance) ==
  IF u.docChanged \/ u.viewportChanged
     \/ u.startState.facet.value # u.state.facet.value
  THEN LET settings == u.state.facet.value
       IN  [build |-> instance.build + 1, result |-> buildLinkDecorations(u.view, settings)]
  ELSE instance

\* update(update): this.decorations after the call; build counts the sets
\* built, a set built again is a new object
CMLinkDecoratorPlugin_update(u, instance) ==
  IF u.docChanged \/ u.viewportChanged
     \/ ~SameObject(u.startState.facet, u.state.facet)
  THEN LET settings == u.state.facet.value
       IN  [build |-> instance.build + 1, result |-> buildLinkDecorations(u.view, settings)]
  ELSE instance

NoChange == [none |-> TRUE]

\* the view is updated and notifies the plugin: the document and its tree
\* are replaced (change), the viewport moves, the compartment of the facet
\* is reconfigured (reconf), or none of these (a selection change, a focus
\* change)
DecoratorUpdate(change, viewportChanged, reconf) ==
  /\ steps < MaxUpdates
  /\ decorations # Null
  /\ steps' = steps + 1
  /\ IF change = NoChange THEN UNCHANGED <<tree, doc>>
     ELSE tree' = TreeOf(change.forest).tree /\ doc' = TreeOf(change.forest).doc
  /\ IF reconf = NoChange THEN UNCHANGED <<values, facet>>
     ELSE /\ values' = reconf.values
          /\ facet' = [id |-> facet.id + 1, value |-> combine(reconf.values)]
  /\ arg' = [fn |-> "update",
             docChanged |-> change # NoChange,
             viewportChanged |-> viewportChanged,
             startState |-> [facet |-> facet],
             state |-> [facet |-> facet'],
             view |-> [tree |-> tree', doc |-> doc', facet |-> facet']]
  /\ decorations' = CMLinkDecoratorPlugin_update(arg', decorations)
  /\ UNCHANGED <<sel, timers, pc, upd, calls, fired, reentrant, ret>>

\* the plugin is constructed on a view with a document and mappings
InitDecorator ==
  /\ \E forest \in DecoratorForests : tree = TreeOf(forest).tree /\ doc = TreeOf(forest).doc
  /\ values \in DecoratorValues
  /\ facet = [id |-> 0, value |-> combine(values)]
  /\ decorations = CMLinkDecoratorPlugin_constructor([tree |-> tree, doc |-> doc, facet |-> facet])
  /\ sel = Caret(0)
  /\ timers = <<>>
  /\ pc = "idle"
  /\ upd = [startState |-> [doc |-> doc, selection |-> sel], transactions |-> <<>>]
  /\ calls = <<>>
  /\ fired = Null
  /\ reentrant = FALSE
  /\ steps = 0
  /\ arg = Null
  /\ ret = Null

NextDecorator ==
  \E change \in {NoChange} \cup {[forest |-> f] : f \in DecoratorForests},
     viewportChanged \in BOOLEAN,
     reconf \in {NoChange} \cup {[values |-> v] : v \in DecoratorValues} :
    DecoratorUpdate(change, viewportChanged, reconf)

SpecDecorator == InitDecorator /\ [][NextDecorator]_vars

\* C17: the plugin builds its annotation set on construction from the
\* current rules; an update builds a new set, from the new document and the
\* new rules, exactly when it reports a document change, a viewport change
\* or a facet value other than the one of the start state; every other
\* update leaves the stored set as it is.
C17_RebuildsWhen ==
  /\ [](steps = 0 =>
          decorations = [build |-> 1, result |-> buildLinkDecorations(View, combine(values))])
  /\ [][ IF arg'.docChanged \/ arg'.viewportChanged \/ facet'.id # facet.id
         THEN /\ decorations'.build = decorations.build + 1
              /\ decorations'.result = buildLinkDecorations(View', combine(values'))
         ELSE decorations' = decorations ]_vars

\* an update that only reconfigured the facet, with the mappings it had,
\* built a new set, and the update after it left the set alone
C17_Witness ==
  /\ steps = 2
  /\ decorations # Null
  /\ decorations.build = 2
  /\ facet.id = 1
  /\ facet.value = combine(ValuesPerson)
  /\ arg.fn = "update"
  /\ ~arg.docChanged /\ ~arg.viewportChanged
  /\ arg.startState.facet.id = arg.state.facet.id

-----------------------------------------------------------------------------
(* Both plugins on one view: the alias plugin follows the updates, the     *)
(* annotations are built from the syntax tree of the document              *)

\* a text before: a link, a link without closer, without opener, without
\* separator and alias, without alias, and no link
ParsedForests ==
  { <<Leaf(NodeOther)>> \o f :
      f \in { WikiLink,
              SubSeq(WikiLink, 1, 4),
              SubSeq(WikiLink, 2, 5),
              <<Leaf(NodeStart), Leaf(NodeOther), Leaf(NodeEnd)>>,
              <<Leaf(NodeStart), Leaf(NodePrefix), Leaf(NodePipe), Leaf(NodeEnd)>>,
              <<>> } }

\* syntaxTree(view.state) is the tree of the document of the state: every
\* leaf covers its text
ParsedFrom(t, d) ==
  /\ t # <<>>
  /\ t[1].to = Len(d)
  /\ \A n \in 2..Len(t) :
       (\A m \in 1..Len(t) : t[m].parent # n) => slice(d, t[n].from, t[n].to) = TextOf(t[n].name)

\* the view shows a parsed document, the caret at its end
InitParsed ==
  /\ \E forest \in ParsedForests : tree = TreeOf(forest).tree /\ doc = TreeOf(forest).doc
  /\ sel = Caret(Len(doc))
  /\ values = ValuesMute
  /\ timers = <<>>
  /\ pc = "idle"
  /\ upd = [startState |-> [doc |-> doc, selection |-> sel], transactions |-> <<>>]
  /\ calls = <<>>
  /\ fired = Null
  /\ reentrant = FALSE
  /\ steps = 0
  /\ facet = Null
  /\ decorations = Null
  /\ arg = Null
  /\ ret = Null

\* the annotations are built, once, from the tree while it is the tree of
\* the document, with the mappings of the state
Annotate ==
  /\ ParsedFrom(tree, doc)
  /\ BuildLinkDecorations(combine(values))

\* the editor with the alias plugin, and the build of the annotations
NextNoOp ==
  \/ Next
  \/ Annotate

SpecNoOp == InitParsed /\ [][NextNoOp]_vars

\* what makes processAlias give up on the text of a link
C18_Fails(text) ==
  \/ Pipes(text) = {}
  \/ AliasOf(text) = <<>>
  \/ Matching(AliasOf(text)) = {}
  \/ Rules[Least(Matching(AliasOf(text)))].emoji = <<>>

\* the update of the alias plugin: document and selection stay; a call is
\* made only for a text with opener and closer; a call that fails has no
\* effect; when all fail nothing is scheduled or dispatched
C18_AliasStep ==
  (pc = "update" /\ pc' = "idle") =>
    /\ doc' = doc /\ sel' = sel
    /\ (indexOf(doc, OPEN, 0) = -1 \/ indexOf(doc, CLOSE, 0) = -1) => calls' = <<>>
    /\ \A k \in 1..Len(calls') :
         /\ startsWith(calls'[k].link.text, OPEN)
         /\ endsWith(calls'[k].link.text, CLOSE)
         /\ C18_Fails(calls'[k].link.text) => calls'[k].effects = <<>>
    /\ (\A k \in 1..Len(calls') : C18_Fails(calls'[k].link.text)) =>
         /\ timers' = timers
         /\ reentrant' = reentrant

\* the annotations built: nothing is thrown; each stands on a node that
\* starts the sequence of the five roles; without such a node the set is
\* empty
C18_NoAnnotation ==
  (arg # Null /\ arg.fn = "buildLinkDecorations") =>
    /\ ~ret.threw
    /\ \A i \in 1..Len(ret.adds) :
         \E n \in 1..Len(tree) :
           /\ C12_Sequence(tree, n)
           /\ tree[n].from = ret.adds[i].from
           /\ tree[SiblingAfter(tree, n, 4)].to = ret.adds[i].to
    /\ (\A n \in 1..Len(tree) : ~C12_Sequence(tree, n)) => ret.set = <<>>

\* C18: every recognition failure is a silent no-op: for a link without
\* opener, closer or separator, with an empty alias, with no rule whose
\* prefix leads the alias or with an empty emoji, alias processing schedules
\* no mutation, throws nothing and leaves document and selection as they
\* are; where the sequence of node roles is absent or malformed no
\* annotation is produced, and a document without links has the empty
\* annotation set.
C18_SilentNoOp == [][C18_AliasStep]_vars /\ [](C18_NoAnnotation)

\* the caret left a link without separator: processAlias was called and did
\* nothing; the tree of the document has no sequence and the set is empty
C18_Witness ==
  /\ Handled
  /\ Len(calls) = 1
  /\ Pipes(calls[1].link.text) = {}
  /\ calls[1].effects = <<>>
  /\ timers = <<>>
  /\ doc = upd.startState.doc
  /\ arg # Null /\ arg.fn = "buildLinkDecorations"
  /\ \A n \in 1..Len(tree) : ~C12_Sequence(tree, n)
  /\ ret.set = <<>>
  /\ ~ret.threw

-----------------------------------------------------------------------------
(* SmartLinkSuggester: onTrigger and the mapping getSuggestions works with *)

MaxLineLen == 4

TRIGGER_START == "@"

\* the characters of the model that [\w\-\_>] matches
TRIGGER_QUERY_CLASS == {"a", "b", "H", "L", "-", "_", ">"}

\* the number of leading code units of s that are in Class
RECURSIVE Leading(_, _)
Leading(s, Class) ==
  IF s # <<>> /\ Head(s) \in Class THEN 1 + Leading(Tail(s), Class) ELSE 0

\* s.match(/^[\w\-\_>]+/): the matched text as [str |-> ..], Null for null
TRIGGER_QUERY_REGEX(s) ==
  LET n == Leading(s, TRIGGER_QUERY_CLASS)
  IN  IF n = 0 THEN Null ELSE [str |-> SubSeq(s, 1, n)]

\* line.charAt(i): the empty string outside the line
charAt(line, i) == IF i >= 0 /\ i < Len(line) THEN <<line[i + 1]>> ELSE <<>>

buildQuery(line, atPos, cursorCh) ==
  LET beforeCursor == slice(line, atPos + 1, cursorCh)
      afterCursorMatch == TRIGGER_QUERY_REGEX(slice(line, cursorCh, Len(line)))
      afterCursor == IF afterCursorMatch # Null THEN afterCursorMatch.str ELSE <<>>
  IN  beforeCursor \o afterCursor

\* settings.mappings.find(m => m.prefix === prefix) ?? null
findMappingByPrefix(mappings, prefix) ==
  LET hits == {i \in 1..Len(mappings) : mappings[i].prefix = prefix}
  IN  IF hits = {} THEN Null ELSE mappings[Least(hits)]

isTrigger(mappings, char) ==
  IF char = <<>> \/ Len(char) # 1 THEN FALSE
  ELSE findMappingByPrefix(mappings, char) # Null

\* the while loop of onTrigger, from atPos down
RECURSIVE onTrigger_while(_, _, _, _)
onTrigger_while(mappings, line, cursor, atPos) ==
  IF atPos < 0 THEN Null
  ELSE LET char == charAt(line, atPos)
           charAfterAt == charAt(line, atPos + 1)
       IN  IF char = <<" ">> THEN Null
           ELSE IF char = <<TRIGGER_START>>
           THEN IF atPos > 0 /\ charAt(line, atPos - 1) # <<" ">> THEN Null
                ELSE IF charAfterAt = <<>> THEN Null
                ELSE IF ~isTrigger(mappings, charAfterAt) THEN Null
                ELSE [start |-> [line |-> cursor.line, ch |-> atPos],
                      end |-> cursor,
                      query |-> buildQuery(line, atPos, cursor.ch)]
           ELSE onTrigger_while(mappings, line, cursor, atPos - 1)

\* onTrigger(cursor, editor): line is editor.getLine(cursor.line)
onTrigger(mappings, cursor, line) ==
  IF line = <<>> THEN Null
  ELSE onTrigger_while(mappings, line, cursor, cursor.ch - 1)

\* the prefix as [str |-> ..], Null for null
getQueryPrefix(context) ==
  LET query == context.query
      rest == IF startsWith(query, <<TRIGGER_START>>) THEN slice(query, 1, Len(query)) ELSE query
  IN  IF query = <<>> THEN Null
      ELSE IF rest = <<>> THEN Null
      ELSE [str |-> charAt(rest, 0)]

getMappingFromContext(mappings, context) ==
  LET prefix == getQueryPrefix(context)
  IN  IF prefix = Null THEN Null ELSE findMappingByPrefix(mappings, prefix.str)

\* the second mapping of DEFAULT_SETTINGS
RLocation == Rule(<<">">>, <<"P">>, "location")

\* settings.mappings: the default mappings, one of them, none
SuggestMappings == { <<RPerson, RLocation>>, <<RLocation>>, <<>> }

LineChars == {"@", ">", " ", "b"}

\* the host asks onTrigger at a cursor in a line and, for a context, asks
\* getSuggestions with it
OnTrigger(mappings, line, ch) ==
  /\ arg' = [fn |-> "onTrigger", mappings |-> mappings, line |-> line,
             cursor |-> [line |-> 0, ch |-> ch]]
  /\ ret' = LET context == onTrigger(mappings, [line |-> 0, ch |-> ch], line)
            IN  [context |-> context,
                 mapping |-> IF context = Null THEN Null
                             ELSE getMappingFromContext(mappings, context)]
  /\ UNCHANGED editorVars
  /\ UNCHANGED <<tree, facet, decorations>>

InitSuggest == NoEditor /\ NoDecorator

\* one call per behaviour
NextSuggest ==
  /\ arg = Null
  /\ \E mappings \in SuggestMappings, line \in SeqsUpTo(LineChars, MaxLineLen) :
       \E ch \in 0..Len(line) : OnTrigger(mappings, line, ch)

SpecSuggest == InitSuggest /\ [][NextSuggest]_vars

\* the line up to the cursor ends with @, the prefix p and one or more
\* query characters, the @ at offset at being first in the line or behind
\* a blank
C20_Typed(line, ch, at, p) ==
  /\ at + 2 < ch
  /\ line[at + 1] = TRIGGER_START
  /\ at = 0 \/ line[at] = " "
  /\ <<line[at + 2]>> = p
  /\ \A i \in at + 3..ch : line[i] \in TRIGGER_QUERY_CLASS

\* C20: for every configured prefix p, after @p and query characters typed
\* at the start of a line or behind a blank, onTrigger returns a context
\* from the @ to the cursor and getSuggestions works with the rule of
\* prefix p; when the character behind the @ is no configured prefix,
\* onTrigger returns null.
C20_TriggerForEveryPrefix ==
  (arg # Null /\ arg.fn = "onTrigger") =>
    /\ \A k \in 1..Len(arg.mappings), at \in 0..Len(arg.line) :
         C20_Typed(arg.line, arg.cursor.ch, at, arg.mappings[k].prefix) =>
           /\ ret.context # Null
           /\ ret.context.start = [line |-> arg.cursor.line, ch |-> at]
           /\ ret.context.end = arg.cursor
           /\ ret.mapping = findMappingByPrefix(arg.mappings, arg.mappings[k].prefix)
    /\ ret.context # Null =>
         /\ charAt(arg.line, ret.context.start.ch) = <<TRIGGER_START>>
         /\ \E k \in 1..Len(arg.mappings) :
              arg.mappings[k].prefix = charAt(arg.line, ret.context.start.ch + 1)

-----------------------------------------------------------------------------
(* debounce (lib/utils/timeout.ts)                                         *)
(*                                                                         *)
(* ret is the function debounce returned, with the timer of its closure;   *)
(* timers are the timeouts pending in the window, calls is the history of  *)
(* the window: the calls of the debounced function, the milliseconds that  *)
(* passed and the executions of fn.                                        *)

MaxDelay == 2
MaxTime == 5
MaxCalls == 3

\* window.setTimeout(callback, delay) at the time now: the callback is
\* fn(...args); id is the handle returned
window_setTimeout(queue, id, args, now, delay) ==
  Append(queue, [id |-> id, due |-> now + delay, args |-> args])

\* window.clearTimeout(id): no effect when the timeout has run
window_clearTimeout(queue, id) ==
  SelectSeq(queue, LAMBDA t : t.id # id)

\* debounce(fn, delay): the closure of the returned function
debounce(delay) == [delay |-> delay, timer |-> Null]

\* variant: the pending timeout is not cleared
debounced_noClear(closure, queue, id, args, now) ==
  [closure |-> [closure EXCEPT !.timer = id],
   queue |-> window_setTimeout(queue, id, args, now, closure.delay)]

\* the returned function called with args
debounced(closure, queue, id, args, now) ==
  LET cleared == IF closure.timer # Null
                 THEN window_clearTimeout(queue, closure.timer)
                 ELSE queue
  IN  [closure |-> [closure EXCEPT !.timer = id],
       queue |-> window_setTimeout(cleared, id, args, now, closure.delay)]

\* the events of a kind in the history
Events(op) == {i \in DOMAIN calls : calls[i].op = op}

\* the milliseconds passed before event i of the history
TimeAt(i) == Cardinality({k \in Events("tick") : k < i})

Now == Cardinality(Events("tick"))

\* the handle window.setTimeout returns next: handles are never reused
NextHandle == [handle |-> Cardinality(Events("call")) + 1]

\* the timeouts whose delay has elapsed
Due == {k \in DOMAIN timers : timers[k].due <= Now}

DebounceArgs == {"a", "b"}

\* the debounced function is called; the window runs the callbacks whose
\* delay has elapsed before it runs anything else
Debounced(args) ==
  /\ Due = {}
  /\ Cardinality(Events("call")) < MaxCalls
  /\ LET r == debounced(ret, timers, NextHandle, args, Now)
     IN  /\ ret' = r.closure
         /\ timers' = r.queue
  /\ arg' = [fn |-> "debounced", args |-> args]
  /\ calls' = Append(calls, [op |-> "call", args |-> args])
  /\ UNCHANGED <<doc, sel, values, pc, upd, fired, reentrant, steps>>
  /\ UNCHANGED <<tree, facet, decorations>>

\* the window runs the callback of an elapsed timeout: fn(...args)
RunDebounced ==
  /\ Due # {}
  /\ LET k == CHOOSE k \in Due : \A j \in Due : k <= j
     IN  /\ fired' = timers[k]
         /\ calls' = Append(calls, [op |-> "fn", args |-> timers[k].args])
         /\ timers' = SubSeq(timers, 1, k - 1) \o SubSeq(timers, k + 1, Len(timers))
  /\ UNCHANGED <<doc, sel, values, pc, upd, reentrant, steps>>
  /\ UNCHANGED decoVars

\* a millisecond passes
Tick ==
  /\ Due = {}
  /\ Now < MaxTime
  /\ calls' = Append(calls, [op |-> "tick", args |-> Null])
  /\ UNCHANGED <<doc, sel, values, timers, pc, upd, fired, reentrant, steps>>
  /\ UNCHANGED decoVars

InitDebounce ==
  /\ NoEditor
  /\ tree = <<>>
  /\ facet = Null
  /\ decorations = Null
  /\ arg = Null
  /\ \E delay \in 0..MaxDelay : ret = debounce(delay)

NextDebounce ==
  \/ \E args \in DebounceArgs : Debounced(args)
  \/ RunDebounced
  \/ Tick

SpecDebounce == InitDebounce /\ [][NextDebounce]_vars

\* the call after call i, or 0
NextCall(i) ==
  LET later == {j \in Events("call") : j > i}
  IN  IF later = {} THEN 0 ELSE Least(later)

\* call i is the last of a run: no call follows it by less than delay
C21_LastOfRun(i) ==
  NextCall(i) = 0 \/ TimeAt(NextCall(i)) - TimeAt(i) >= ret.delay

\* the executions of fn between call i and the call after it
C21_Executions(i) ==
  {e \in Events("fn") : e > i /\ (NextCall(i) = 0 \/ e < NextCall(i))}

\* the execution owed for call i has had its time
C21_Elapsed(i) ==
  \/ NextCall(i) # 0
  \/ TimeAt(i) + ret.delay < Now
  \/ TimeAt(i) + ret.delay = Now /\ timers = <<>>

-----------------------------------------------------------------------------
(* The replacements the plugin causes by itself *)

\* the user types and moves the caret, at most MaxSteps times
NextQuiet ==
  \/ \E c \in TypedChars : Type(c)
  \/ \E p \in 0..Len(doc) : MoveCaret(p)
  \/ PluginUpdate
  \/ RunTimeout

\* the event loop runs every pending timeout callback
SpecQuiet == Init /\ [][NextQuiet]_vars /\ WF_vars(RunTimeout)

\* C22: once the user produces no further events, only finitely many
\* deferred mutations are dispatched: from some point on no timeout
\* callback runs any more, the update a mutation produces does not keep
\* scheduling further mutations on the link.
C22_FinitelyMany == <>[][~RunTimeout]_vars

\* every rule of the rule sets of the model
AllRules == {RPerson, RMute, RAny, RSwapA, RSwapB}

\* the range of the mutation cb lies in d, stands behind a separator and
\* holds the prefix of the rule whose emoji cb inserts
C23_HoldsPrefix(cb, d) ==
  /\ cb.from >= 1
  /\ cb.to <= Len(d)
  /\ <<d[cb.from]>> = PIPE
  /\ \E r \in AllRules : r.emoji = cb.insert /\ slice(d, cb.from, cb.to) = r.prefix

\* C23: when the event loop runs a deferred mutation, the range it replaces
\* lies inside the document and still holds the rule's prefix at the start
\* of the alias of a link, whatever was dispatched since it was scheduled.
C23_RangeStillPrefix == [][RunTimeout => C23_HoldsPrefix(Head(timers), doc)]_vars

-----------------------------------------------------------------------------
(* The caret-exit detector and the document the caret offset belongs to *)

\* offset p of document d lies within a link of d: a [[ at or before p and
\* the first ]] from there, ending at or behind p
C24_Within(d, p) ==
  \E o \in Openers(d, p) :
    /\ \A q \in Openers(d, p) : q <= o
    /\ Closers(d, o) # {}
    /\ p <= Least(Closers(d, o)) + 2

\* a link behind two code units, the caret anywhere: ab[[|@]]
ExitDoc == <<"a", "b", "[", "[", "|", "@", "]", "]">>

InitExit ==
  /\ doc = ExitDoc
  /\ \E p \in 0..Len(ExitDoc) : sel = Caret(p)
  /\ values = ValuesPerson
  /\ timers = <<>>
  /\ pc = "idle"
  /\ upd = [startState |-> [doc |-> doc, selection |-> sel], transactions |-> <<>>]
  /\ calls = <<>>
  /\ fired = Null
  /\ reentrant = FALSE
  /\ steps = 0
  /\ NoDecorator

SpecExit == InitExit /\ [][Next]_vars

\* C24: the Caret-Exit Detector triggers alias processing only if the caret
\* stood within a link before the update, in the document of before the
\* update, also when the update changes document and selection together.
C24_WasInside ==
  Handled =>
    \A k \in CaretExitCalls :
      C24_Within(upd.startState.doc, upd.startState.selection.head)

-----------------------------------------------------------------------------
(* The link slices handed to alias processing *)

\* text is [[, an inner part without [[ and without ]], and ]]
C25_SingleLink(text) ==
  /\ Len(text) >= 4
  /\ SubSeq(text, 1, 2) = OPEN
  /\ SubSeq(text, Len(text) - 1, Len(text)) = CLOSE
  /\ \A i \in 3..Len(text) - 3 :
       /\ SubSeq(text, i, i + 1) # OPEN
       /\ SubSeq(text, i, i + 1) # CLOSE

\* C25: every link slice handed to alias processing, by either detector,
\* is a single well-formed link: [[ at its start, ]] at its end and no
\* further [[ or ]] in between.
C25_WellFormedSlice ==
  Handled => \A k \in 1..Len(calls) : C25_SingleLink(calls[k].link.text)

\* C26: one update notification schedules at most one deferred mutation,
\* whatever the number of its transactions and whichever detectors ran.
C26_AtMostOne == Handled => Len(Scheduled) <= 1

-----------------------------------------------------------------------------
(* decorate and the rules that match one alias *)

\* C28: when several mappings match the same alias, the builder receives
\* several decorations for the same range: decorate adds one decoration for
\* every mapping whose prefix or emoji is a prefix of the alias.
C28_EveryMatch ==
  (arg # Null /\ arg.fn = "decorate") =>
    LET hits == C11_Matches(arg.settings, arg.alias)
        before == arg.builder.calls
        after == ret.builder.calls
    IN  /\ Len(after) = Len(before) + Cardinality(hits)
        /\ \A i \in hits :
             \E k \in Len(before) + 1..Len(after) :
               /\ after[k].from = arg.startFrom /\ after[k].to = arg.endTo
               /\ after[k].value.mark["attributes"][DATA_SLD_TYPE] = arg.settings[i].linkType

-----------------------------------------------------------------------------
(* Alias processing and the annotation builder on the same rule set *)

\* rule sets as the facet yields them: no prefix twice
ClassifyRuleSets ==
  {R \in SeqsUpTo(AllRules, MaxArrayLen) :
     \A i, j \in 1..Len(R) : i # j => R[i].prefix # R[j].prefix}

\* the data-sld-type decorate gives a link with this alias, if any
LinkTypeOf(settings, alias) ==
  LET builder == decorate(NewBuilder, settings, <<>>, alias, 0, 1)
  IN  IF builder.calls = <<>> THEN Null
      ELSE [linkType |-> builder.calls[1].value.mark["attributes"][DATA_SLD_TYPE]]

\* processAlias for the link [[|alias]] and, when it has scheduled a
\* mutation, decorate for the alias before and after the mutation
ProcessAndDecorate(settings, alias) ==
  LET text == OPEN \o PIPE \o alias \o CLOSE
      u == [state |-> [doc |-> text, selection |-> Caret(Len(text)), facet |-> settings]]
      effects == processAlias(u, Link(0, Len(text), text))
      replaced == AliasOf(ApplyChange(text, effects[1].from, effects[1].to, effects[1].insert))
  IN  /\ arg' = [fn |-> "processAlias", settings |-> settings, alias |-> alias]
      /\ ret' = IF effects = <<>> THEN [effects |-> effects]
                ELSE [effects |-> effects,
                      alias |-> replaced,
                      before |-> LinkTypeOf(settings, alias),
                      after |-> LinkTypeOf(settings, replaced)]
      /\ UNCHANGED editorVars
      /\ UNCHANGED <<tree, facet, decorations>>

InitClassify == NoEditor /\ NoDecorator

\* one call per behaviour
NextClassify ==
  /\ arg = Null
  /\ \E settings \in ClassifyRuleSets, alias \in Aliases : ProcessAndDecorate(settings, alias)

SpecClassify == InitClassify /\ [][NextClassify]_vars

\* C27: when alias processing replaces the prefix of an alias using rule r,
\* the first rule whose prefix starts the alias, the annotation builder
\* with the same rules gives the link r.linkType for the alias before the
\* replacement and for the alias after it.
C27_SameClass ==
  (arg # Null /\ arg.fn = "processAlias" /\ ret.effects # <<>>) =>
    LET r == arg.settings[Least({i \in 1..Len(arg.settings) :
                                   IsPrefixOf(arg.settings[i].prefix, arg.alias)})]
    IN  /\ ret.before = [linkType |-> r.linkType]
        /\ ret.after = [linkType |-> r.linkType]

-----------------------------------------------------------------------------
(* SmartLinkDecorator (main.ts): the settings and the open editors         *)
(*                                                                         *)
(* ret is the plugin: its arrays of mappings by identity and the array     *)
(* that settings.mappings is; values holds, for every open editor, the     *)
(* arrays its two compartments contribute to the facet, facet the value    *)
(* its state has resolved; timers are the saveSettings calls waiting for   *)
(* saveData.                                                               *)

MaxEditors == 2
MaxArrays == 2
MaxMappings == 2
MaxSaves == 1

\* DEFAULT_SETTINGS.mappings
DefaultMappings == <<RPerson, RLocation>>

\* the mappings of the settings objects assigned to plugin.settings
AssignedMappings == { <<RSwapA>>, <<RLocation>>, DefaultMappings }

\* this.settings.mappings
MappingsOf(this) == this.arrays[this.settings]

\* view.state.facet(SLD_SettingsFacet) when the configuration is resolved:
\* settingsCompartment comes first, the editor's own compartment, appended
\* to the configuration, second
ResolveFacet(arrays, config) ==
  combine(<<arrays[config.settingsCompartment]>>
          \o (IF config.compartment = 0 THEN <<>> ELSE <<arrays[config.compartment]>>))

ResolveAll(arrays, editors) ==
  [e \in DOMAIN editors |-> ResolveFacet(arrays, editors[e])]

\* updateAllEditors: settingsCompartment.reconfigure(SLD_SettingsFacet.of(
\* this.settings.mappings)) in every Markdown view
updateAllEditors(this, editors) ==
  [e \in DOMAIN editors |-> [editors[e] EXCEPT !.settingsCompartment = this.settings]]

\* addCMLinkPluginToEditor: the editor's own compartment is created if
\* missing and reconfigured with this.settings.mappings
addCMLinkPluginToEditor(this, editor) ==
  [editor EXCEPT !.compartment = this.settings]

\* saveSettings up to its await
SaveBegins ==
  /\ Len(timers) < MaxSaves
  /\ timers' = Append(timers, [fn |-> "saveSettings"])

PluginUnchanged == UNCHANGED <<doc, sel, pc, upd, calls, fired, reentrant, steps, tree, decorations>>

\* a Markdown view is opened: its editor gets the registered extension,
\* settingsCompartment.of(SLD_SettingsFacet.of(mappings)) of onload
OpenEditor ==
  /\ Len(values) < MaxEditors
  /\ LET editor == [settingsCompartment |-> 1, compartment |-> 0]
     IN  /\ values' = Append(values, editor)
         /\ facet' = Append(facet, ResolveFacet(ret.arrays, editor))
  /\ arg' = [fn |-> "open"]
  /\ UNCHANGED <<ret, timers>>
  /\ PluginUnchanged

\* active-leaf-change: processLeaf for a leaf not processed yet
ActiveLeafChange(e) ==
  /\ values[e].compartment = 0
  /\ values' = [values EXCEPT ![e] = addCMLinkPluginToEditor(ret, values[e])]
  /\ facet' = [facet EXCEPT ![e] = ResolveFacet(ret.arrays, values'[e])]
  /\ arg' = [fn |-> "addCMLinkPluginToEditor"]
  /\ UNCHANGED <<ret, timers>>
  /\ PluginUnchanged

\* set settings(settings): another settings object, with its own array
SetSettings(mappings) ==
  /\ Len(ret.arrays) < MaxArrays
  /\ SaveBegins
  /\ ret' = [settings |-> Len(ret.arrays) + 1, arrays |-> Append(ret.arrays, mappings)]
  /\ arg' = [fn |-> "settings"]
  /\ UNCHANGED <<values, facet>>
  /\ PluginUnchanged

\* the settings tab changes settings.mappings in place and saves
TabChange(mappings) ==
  /\ SaveBegins
  /\ ret' = [ret EXCEPT !.arrays[ret.settings] = mappings]
  /\ arg' = [fn |-> "settingsTab"]
  /\ UNCHANGED <<values, facet>>
  /\ PluginUnchanged

\* blur of the prefix or the emoji input of a row
TabBlur(index, field, value) ==
  TabChange([MappingsOf(ret) EXCEPT ![index][field] = value])

\* the delete button of a row: mappings.splice(index, 1)
TabDelete(index) ==
  TabChange(SubSeq(MappingsOf(ret), 1, index - 1)
            \o SubSeq(MappingsOf(ret), index + 1, Len(MappingsOf(ret))))

\* the append button: mappings.push of an empty mapping
TabAppend ==
  /\ Len(MappingsOf(ret)) < MaxMappings
  /\ TabChange(Append(MappingsOf(ret), Rule(<<>>, <<>>, "")))

\* saveData has resolved: injectDynamicCSS and updateAllEditors
SaveSettingsEnds ==
  /\ timers # <<>>
  /\ timers' = Tail(timers)
  /\ values' = updateAllEditors(ret, values)
  /\ facet' = ResolveAll(ret.arrays, values')
  /\ arg' = [fn |-> "saveSettings"]
  /\ UNCHANGED ret
  /\ PluginUnchanged

InitPlugin ==
  /\ NoEditor
  /\ tree = <<>>
  /\ decorations = Null
  /\ facet = <<>>
  /\ arg = Null
  /\ ret = [settings |-> 1, arrays |-> <<DefaultMappings>>]

NextPlugin ==
  \/ OpenEditor
  \/ \E e \in DOMAIN values : ActiveLeafChange(e)
  \/ \E mappings \in AssignedMappings : SetSettings(mappings)
  \/ \E index \in DOMAIN MappingsOf(ret) :
       \/ TabBlur(index, "prefix", <<">">>)
       \/ TabBlur(index, "emoji", <<"a">>)
       \/ TabDelete(index)
  \/ TabAppend
  \/ SaveSettingsEnds

SpecPlugin == InitPlugin /\ [][NextPlugin]_vars

\* C29: when saveSettings has finished and no other save is under way, the
\* Rule Set resolved in every open editor is the prefix-deduplicated
\* settings.mappings, in editors with a compartment of their own as well.
C29_EditorsSeeSettings ==
  (arg # Null /\ arg.fn = "saveSettings" /\ timers = <<>>) =>
    \A e \in DOMAIN facet : facet[e] = combine(<<MappingsOf(ret)>>)

-----------------------------------------------------------------------------
(* SmartLinkSuggester.getSuggestions                                       *)
(*                                                                         *)
(* arg is the call: settings.mappings, the Markdown files of the vault     *)
(* with their metadata caches, and the context; ret the returned list.     *)

MaxFiles == 2

\* String.prototype.toLowerCase on the names of the model
LowerChar(c) == IF c = "A" THEN "a" ELSE IF c = "B" THEN "b" ELSE c

toLowerCase(s) == [i \in 1..Len(s) |-> LowerChar(s[i])]

\* toLowerCase on link types and frontmatter keys
toLowerCaseKey(k) ==
  CASE k = "Location" -> "location"
    [] k = "isLocation" -> "islocation"
    [] k = "is[Location]" -> "is[location]"
    [] OTHER -> k

\* String.prototype.includes
includesText(s, p) == indexOf(s, p, 0) >= 0

\* a < b for strings in lower case, letter by letter
RECURSIVE Before(_, _)
Before(a, b) ==
  IF b = <<>> THEN FALSE
  ELSE IF a = <<>> THEN TRUE
  ELSE IF Head(a) # Head(b) THEN Head(a) = "a"
  ELSE Before(Tail(a), Tail(b))

\* a precedes b by case alone: at the first difference a has the lower case
\* letter
RECURSIVE LowerFirst(_, _)
LowerFirst(a, b) ==
  IF a = <<>> \/ b = <<>> THEN FALSE
  ELSE IF Head(a) # Head(b) THEN LowerChar(Head(a)) = Head(a)
  ELSE LowerFirst(Tail(a), Tail(b))

\* a.localeCompare(b): the letters decide, the case only between strings of
\* the same letters
localeCompare(a, b) ==
  IF a = b THEN 0
  ELSE IF Before(toLowerCase(a), toLowerCase(b)) THEN -1
  ELSE IF Before(toLowerCase(b), toLowerCase(a)) THEN 1
  ELSE IF LowerFirst(a, b) THEN -1 ELSE 1

\* cache.tags holds the inline tags behind their #
hasTag(cache, original, normalized) ==
  LET inlineTags == cache.tags
      fmTags == IF cache.frontmatter = Null THEN <<>> ELSE cache.frontmatter.tags
      tags == inlineTags \o fmTags
  IN  includes(tags, original) \/ includes(tags, normalized)

\* frontmatter.flags: the keys of the frontmatter with the value true
hasFlag(cache, original, normalized) ==
  LET fm == cache.frontmatter
      expectedKeys == { toLowerCaseKey("is" \o original),
                        toLowerCaseKey("is" \o normalized),
                        toLowerCaseKey("is[" \o original \o "]"),
                        toLowerCaseKey("is[" \o normalized \o "]") }
  IN  IF fm = Null THEN FALSE
      ELSE \E key \in fm.flags : toLowerCaseKey(key) \in expectedKeys

\* frontmatter.aliases is [array |-> ..], Null when the key is missing; the
\* alias found is [str |-> ..], Null for null
getAliasListFirstMatch(aliases, query) ==
  LET aliasList == aliases.array
      hits == {i \in 1..Len(aliasList) : includesText(toLowerCase(aliasList[i]), query)}
  IN  IF hits = {} THEN Null ELSE [str |-> aliasList[Least(hits)]]

findMatchingAlias(cache, query) ==
  LET aliases == IF cache.frontmatter = Null THEN Null ELSE cache.frontmatter.aliases
      needle == toLowerCase(slice(query, 1, Len(query)))
  IN  IF aliases = Null THEN Null
      ELSE IF needle = <<>> THEN Null
      ELSE getAliasListFirstMatch(aliases, needle)

hasMatchingAlias(cache, query) == findMatchingAlias(cache, query) # Null

aliasContains(cache, str) ==
  IF str = <<>> \/ Len(str) < 2 THEN FALSE
  ELSE LET query == toLowerCase(slice(str, 1, Len(str)))
       IN  IF query = <<>> THEN FALSE ELSE hasMatchingAlias(cache, query)

fileStartsWith(file, str) ==
  IF str = <<>> \/ Len(str) < 2 THEN FALSE
  ELSE LET query == slice(str, 1, Len(str))
           fileName == file.basename
       IN  startsWith(toLowerCase(fileName), toLowerCase(query))

\* the body of the loop over getMarkdownFiles for the files from i on
RECURSIVE getSuggestions_for(_, _, _, _, _)
getSuggestions_for(files, i, context, original, normalized) ==
  IF i > Len(files) THEN <<>>
  ELSE LET file == files[i]
           cache == file.cache
           rest == getSuggestions_for(files, i + 1, context, original, normalized)
       IN  IF cache = Null THEN rest
           ELSE IF ~hasTag(cache, original, normalized) /\ ~hasFlag(cache, original, normalized)
           THEN rest
           ELSE IF fileStartsWith(file, context.query)
           THEN <<[file |-> file, displayName |-> file.basename, matchType |-> "filename"]>> \o rest
           ELSE IF aliasContains(cache, context.query)
           THEN LET alias == findMatchingAlias(cache, context.query)
                IN  IF alias = Null THEN rest
                    ELSE <<[file |-> file, displayName |-> alias.str, matchType |-> "alias"]>> \o rest
           ELSE rest

\* score of the comparator
score(s, query) ==
  LET name == toLowerCase(s.displayName)
      baseScore == IF startsWith(name, query) THEN 2
                   ELSE IF includesText(name, query) THEN 1 ELSE 0
      lengthPenalty == Len(name) - Len(query)
  IN  baseScore - lengthPenalty

\* the comparator of suggestions.sort
compareSuggestions(a, b, context) ==
  LET query == toLowerCase(slice(context.query, 1, Len(context.query)))
      scoreA == score(a, query)
      scoreB == score(b, query)
  IN  IF scoreB # scoreA THEN scoreB - scoreA
      ELSE localeCompare(a.displayName, b.displayName)

\* s put into the sorted list behind everything that does not follow it
RECURSIVE SortedInsert(_, _, _)
SortedInsert(sorted, s, context) ==
  IF sorted = <<>> THEN <<s>>
  ELSE IF compareSuggestions(Head(sorted), s, context) <= 0
  THEN <<Head(sorted)>> \o SortedInsert(Tail(sorted), s, context)
  ELSE <<s>> \o sorted

\* Array.prototype.sort, which is stable
RECURSIVE sort(_, _, _)
sort(suggestions, n, context) ==
  IF n = 0 THEN <<>>
  ELSE SortedInsert(sort(suggestions, n - 1, context), suggestions[n], context)

getSuggestions(mappings, files, context) ==
  LET mapping == getMappingFromContext(mappings, context)
  IN  IF mapping = Null THEN <<>>
      ELSE LET original == mapping.linkType
               normalized == toLowerCaseKey(original)
               suggestions == getSuggestions_for(files, 1, context, original, normalized)
           IN  sort(suggestions, Len(suggestions), context)

\* a mapping whose link type has an upper case letter
RPlace == Rule(<<">">>, <<"P">>, "Location")

GetSuggestionsMappings == { <<RPerson, RLocation>>, <<RPlace>> }

Basenames == { <<"a">>, <<"a", "b">>, <<"b">>, <<"A", "b">>, <<"a", "b", "b">> }

Caches ==
  { Null,
    [tags |-> <<>>, frontmatter |-> Null],
    [tags |-> <<"location">>, frontmatter |-> Null],
    [tags |-> <<>>, frontmatter |-> [tags |-> <<"Location">>, flags |-> {}, aliases |-> [array |-> <<<<"a">>>>]]],
    [tags |-> <<>>, frontmatter |-> [tags |-> <<>>, flags |-> {"isLocation"},
                                     aliases |-> [array |-> <<<<"b">>, <<"A", "b">>>>]]],
    [tags |-> <<"location">>, frontmatter |-> [tags |-> <<>>, flags |-> {}, aliases |-> Null]] }

MarkdownFiles == { [basename |-> b, cache |-> c] : b \in Basenames, c \in Caches }

Queries == { <<">">>, <<">", "a">>, <<">", "b">>, <<">", "a", "b">>, <<">", "A", "b">>, <<"@", "a">> }

GetSuggestions(mappings, files, query) ==
  /\ arg' = [fn |-> "getSuggestions", mappings |-> mappings, files |-> files,
             context |-> [query |-> query]]
  /\ ret' = getSuggestions(mappings, files, [query |-> query])
  /\ UNCHANGED editorVars
  /\ UNCHANGED <<tree, facet, decorations>>

\* one call per behaviour
NextSuggestions ==
  /\ arg = Null
  /\ \E mappings \in GetSuggestionsMappings, files \in SeqsUpTo(MarkdownFiles, MaxFiles),
        query \in Queries :
       GetSuggestions(mappings, files, query)

SpecSuggestions == InitSuggest /\ [][NextSuggestions]_vars

\* C30: in the list getSuggestions returns, every suggestion with
\* matchType "filename" comes before every suggestion with matchType
\* "alias".
C30_FilenameFirst ==
  (arg # Null /\ arg.fn = "getSuggestions") =>
    \A i \in 1..Len(ret), j \in 1..Len(ret) :
      (ret[i].matchType = "alias" /\ ret[j].matchType = "filename") => j < i

====
